---- MODULE Spec2Model ----
(***************************************************************************)
(* A model of the nutype code generator: the float wrapper generator       *)
(* (nutype_derive/src/float/gen/mod.rs) together with the code it emits,   *)
(* the guard / derive-trait validation of arbitrary inner types            *)
(* (nutype_macros/src/any/validate.rs), the trait generator                *)
(* (nutype_macros/src/any/gen/traits/mod.rs) and the attribute parser      *)
(* (nutype_macros/src/common/parse/mod.rs).                                *)
(*                                                                         *)
(* Option<T> is modelled as a sequence of length 0 (None) or 1 (Some).     *)
(* Result<T, E> is modelled as a record with a tag field.                  *)
(***************************************************************************)
EXTENDS Integers, Sequences, FiniteSets, TLC

VARIABLES
    \* ---- float wrapper: generation and the generated constructor ----
    meta,              \* NewtypeFloatMeta<T>: From{sanitizers} | TryFrom{sanitizers, validators}
    vis,               \* the caller's visibility marker
    traits,            \* the requested derive traits handed to the generator
    artifact,          \* Option: the TokenStream emitted by gen_nutype_for_float
    implementation,    \* the code emitted by gen_implementation for meta
    pc,                \* position inside the generated new()
    raw_value,         \* argument of new()
    sanitized_value,   \* Option: local `sanitized_value` / the result of sanitize()
    consulted,         \* number of validator checks evaluated by validate()
    result,            \* what new() returned: None | Ok(wrapper) | Err(variant)
    extracted,         \* Option: what into_inner() returned
    \* ---- guard validation of an arbitrary inner type ----
    raw_guard,         \* AnyRawGuard { sanitizers, validators } of spanned rules
    guard_result,      \* what validate_any_guard returned
    \* ---- derive traits of an arbitrary inner type ----
    guard,                  \* the AnyGuard the traits are resolved against
    spanned_derive_traits,  \* Vec<SpannedDeriveTrait>: the derive requests
    maybe_default_value,    \* Option<syn::Expr> of `default = ...`
    derive_traits,          \* what validate_any_derive_traits returned
    generated,              \* what gen_traits returned (or its panic)
    \* ---- parsing of #[nutype(...)] and #[derive(...)] ----
    features,               \* the enabled cargo features of the crate
    input,                  \* TokenStream inside #[nutype(...)]
    attributes,             \* what parse_nutype_attributes returned
    parseable_attributes,   \* what ParseableAttributes::parse returned
    derive_attrs,           \* &[syn::Attribute] of the annotated type
    parsed_derive_traits    \* what parse_derive_traits returned

floatVars == <<meta, vis, traits, artifact, implementation, pc, raw_value,
               sanitized_value, consulted, result, extracted>>

guardVars == <<raw_guard, guard_result>>

traitVars == <<guard, spanned_derive_traits, maybe_default_value, derive_traits, generated>>

parseVars == <<features, input, attributes, parseable_attributes, derive_attrs,
               parsed_derive_traits>>

vars == <<floatVars, guardVars, traitVars, parseVars>>


(***************************************************************************)
(* Bounds of the model.                                                    *)
(***************************************************************************)
MaxAbs == 2        \* raw inputs range over -MaxAbs..MaxAbs and NaN
MaxFloatRules == 3 \* most rules (sanitizers plus validators) of a float wrapper
MaxRules == 3      \* longest sanitizer / validator list of a raw guard
MaxDerive == 2     \* longest list of derive requests over all traits
MaxOptions == 2    \* most options written inside #[nutype(...)]
MaxDeriveTokens == 2  \* most tokens written inside one #[derive(...)]
MaxScenarioStep == 25  \* scenario inputs are the multiples of 50 up to 50 * MaxScenarioStep

(***************************************************************************)
(* Helpers.                                                                *)
(***************************************************************************)
None == <<>>
Some(x) == <<x>>
IsSome(o) == Len(o) = 1
Unwrap(o) == o[1]

Range(s) == {s[i] : i \in 1..Len(s)}

\* A panic: the call does not return.
Panic(m) == [tag |-> "Panic", msg |-> m]
IsPanic(x) == "tag" \in DOMAIN x /\ x.tag = "Panic"

SeqsUpTo(S, n) == UNION {[1..k -> S] : k \in 0..n}

(***************************************************************************)
(* Floating point values: finite numbers and NaN.  Every comparison with   *)
(* NaN is false (PartialOrd for f32/f64).                                  *)
(***************************************************************************)
Fl(n) == [nan |-> FALSE, v |-> n]
NaN == [nan |-> TRUE, v |-> 0]

FloatValues == {Fl(n) : n \in -MaxAbs..MaxAbs} \cup {NaN}
\* The literals written in Clamp / Min / Max rules.
Literals == {Fl(-1), Fl(0), Fl(1)}

FloatGt(a, b) == ~a.nan /\ ~b.nan /\ a.v > b.v
FloatLt(a, b) == ~a.nan /\ ~b.nan /\ a.v < b.v
FloatLe(a, b) == ~a.nan /\ ~b.nan /\ a.v <= b.v

\* value.min(min).max(max): the two bounds applied with the wrong operations.
FloatClamp_MinMaxConfused(x, min, max) ==
    LET lo == IF FloatLt(min, x) THEN min ELSE x
    IN  IF FloatGt(max, lo) THEN max ELSE lo

\* f64::clamp(self, min, max): asserts min <= max, which also fails when a
\* bound is NaN, and panics otherwise, whatever the value; NaN stays NaN.
FloatClamp(x, min, max) ==
    IF ~FloatLe(min, max)
    THEN Panic([text |-> "min > max, or either was NaN", min |-> min, max |-> max])
    ELSE LET lo == IF FloatLt(x, min) THEN min ELSE x
         IN  IF FloatGt(lo, max) THEN max ELSE lo

\* The caller-supplied closures of `with = ...`: total functions on the inner type.
CustomSanitizers == {"neg", "abs"}
CustomValidators == {"is_finite", "non_zero"}

CallSanitizer(f, x) ==
    IF x.nan THEN x
    ELSE IF f = "neg" THEN Fl(0 - x.v)
    ELSE IF x.v < 0 THEN Fl(0 - x.v) ELSE x

CallValidator(f, x) ==
    IF f = "is_finite" THEN ~x.nan
    ELSE x.nan \/ x.v # 0

(***************************************************************************)
(* The attribute model of a float wrapper.                                 *)
(***************************************************************************)
\* gen_sanitize_fn emits the clamp for any two literals, also for min > max.
FloatSanitizer ==
    {[kind |-> "Clamp", min |-> lo, max |-> hi] : lo \in Literals, hi \in Literals}
    \cup {[kind |-> "With", f |-> f] : f \in CustomSanitizers}

FloatValidator ==
    {[kind |-> "Max", bound |-> b] : b \in Literals}
    \cup {[kind |-> "Min", bound |-> b] : b \in Literals}
    \cup {[kind |-> "With", f |-> f] : f \in CustomValidators}

\* From carries sanitizers only; TryFrom carries at least one validator.
NewtypeFloatMeta ==
    {[kind |-> "From", sanitizers |-> s, validators |-> <<>>] :
        s \in SeqsUpTo(FloatSanitizer, MaxFloatRules)}
    \cup UNION {{[kind |-> "TryFrom", sanitizers |-> s, validators |-> v] :
                    s \in [1..(n - k) -> FloatSanitizer], v \in [1..k -> FloatValidator]} :
                <<n, k>> \in {p \in (1..MaxFloatRules) \X (1..MaxFloatRules) : p[2] <= p[1]}}

TypeName == "Amount"
gen_error_type_name(type_name) == <<type_name, "Error">>
gen_module_name_for_type(type_name) == <<"__nutype_private_", type_name, "__">>

(***************************************************************************)
(* gen_sanitize_fn: one assignment statement per sanitizer, in order.      *)
(***************************************************************************)
SanitizeStmt_SwappedBounds(san) ==
    IF san.kind = "Clamp"
    THEN [op |-> "clamp", min |-> san.max, max |-> san.min]
    ELSE [op |-> "call", f |-> san.f]

SanitizeStmt(san) ==
    IF san.kind = "Clamp"
    THEN [op |-> "clamp", min |-> san.min, max |-> san.max]
    ELSE [op |-> "call", f |-> san.f]

gen_sanitize_fn(sanitizers) ==
    [transformations |-> [i \in 1..Len(sanitizers) |-> SanitizeStmt(sanitizers[i])]]

(***************************************************************************)
(* gen_validate_fn: one early-returning `if` per validator, in order.      *)
(***************************************************************************)
ValidateStmt_SwappedVariants(error_name, validator) ==
    IF validator.kind = "Max"
    THEN [test |-> "gt", bound |-> validator.bound, err |-> <<error_name, "TooSmall">>]
    ELSE IF validator.kind = "Min"
    THEN [test |-> "lt", bound |-> validator.bound, err |-> <<error_name, "TooBig">>]
    ELSE [test |-> "not", f |-> validator.f, err |-> <<error_name, "Invalid">>]

ValidateStmt(error_name, validator) ==
    IF validator.kind = "Max"
    THEN [test |-> "gt", bound |-> validator.bound, err |-> <<error_name, "TooBig">>]
    ELSE IF validator.kind = "Min"
    THEN [test |-> "lt", bound |-> validator.bound, err |-> <<error_name, "TooSmall">>]
    ELSE [test |-> "not", f |-> validator.f, err |-> <<error_name, "Invalid">>]

gen_validate_fn(type_name, validators) ==
    LET error_name == gen_error_type_name(type_name)
    IN  [validations |->
            [i \in 1..Len(validators) |-> ValidateStmt(error_name, validators[i])]]

\* gen_validation_error_type: a closed enum, one variant per validator.
VariantOf(validator) ==
    IF validator.kind = "Max" THEN "TooBig"
    ELSE IF validator.kind = "Min" THEN "TooSmall"
    ELSE "Invalid"

gen_validation_error_type(type_name, validators) ==
    [name |-> gen_error_type_name(type_name),
     variants |-> [i \in 1..Len(validators) |-> VariantOf(validators[i])]]

(***************************************************************************)
(* gen_new_without_validation / gen_new_with_validation / gen_impl_methods *)
(***************************************************************************)
gen_new_without_validation(type_name, sanitizers) ==
    [returns |-> "Self",
     error_type_name |-> None,
     validation_error |-> None,
     sanitize |-> gen_sanitize_fn(sanitizers),
     validate |-> None]

gen_new_with_validation(type_name, sanitizers, validators) ==
    [returns |-> "Result",
     error_type_name |-> Some(gen_error_type_name(type_name)),
     validation_error |-> Some(gen_validation_error_type(type_name, validators)),
     sanitize |-> gen_sanitize_fn(sanitizers),
     validate |-> Some(gen_validate_fn(type_name, validators))]

gen_impl_methods(type_name) == [into_inner |-> "self.0"]

gen_implementation(type_name, m) ==
    [convert_implementation |->
        IF m.kind = "From"
        THEN gen_new_without_validation(type_name, m.sanitizers)
        ELSE gen_new_with_validation(type_name, m.sanitizers, m.validators),
     methods |-> gen_impl_methods(type_name)]

(***************************************************************************)
(* Execution of the emitted code.                                          *)
(***************************************************************************)
\* fn sanitize(mut value) { #transformations value }: a statement that panics
\* ends the call.
RECURSIVE RunSanitize(_, _)
RunSanitize(stmts, value) ==
    IF stmts = <<>> THEN value
    ELSE LET s == Head(stmts)
             next == IF s.op = "clamp" THEN FloatClamp(value, s.min, s.max)
                     ELSE CallSanitizer(s.f, value)
         IN  IF IsPanic(next) THEN next ELSE RunSanitize(Tail(stmts), next)

StmtFails_NonStrict(s, val) ==
    IF s.test = "gt" THEN ~FloatLt(val, s.bound) /\ ~val.nan
    ELSE IF s.test = "lt" THEN ~FloatGt(val, s.bound) /\ ~val.nan
    ELSE ~CallValidator(s.f, val)

StmtFails(s, val) ==
    IF s.test = "gt" THEN FloatGt(val, s.bound)
    ELSE IF s.test = "lt" THEN FloatLt(val, s.bound)
    ELSE ~CallValidator(s.f, val)

\* fn validate(val) { #validations Ok(()) }: the outcome and the number of
\* `if` conditions that were evaluated.
RECURSIVE RunValidate(_, _, _)
RunValidate(stmts, val, n) ==
    IF stmts = <<>> THEN [tag |-> "Ok", consulted |-> n]
    ELSE IF StmtFails(Head(stmts), val)
    THEN [tag |-> "Err", err |-> Head(stmts).err, consulted |-> n + 1]
    ELSE RunValidate(Tail(stmts), val, n + 1)

(***************************************************************************)
(* gen_nutype_for_float: the whole emitted artifact.                       *)
(***************************************************************************)
Visibilities == {"pub", "pub(crate)", "inherited"}
FloatDeriveTraitSets == {{}, {"Debug", "FromStr"}}

\* float::gen::traits::gen_traits: receives the error type name and the traits.
float_gen_traits(type_name, maybe_error_type_name, trs) ==
    [derive_standard_traits |-> [type_name |-> type_name, traits |-> trs],
     implement_traits |-> [type_name |-> type_name, traits |-> trs,
                           maybe_error_type_name |-> maybe_error_type_name]]

\* let maybe_error_type_name = match meta { From => None, TryFrom => Some(..) }
float_maybe_error_type_name(type_name, m) ==
    IF m.kind = "From" THEN None ELSE Some(gen_error_type_name(type_name))

error_type_import_AlwaysPub(v, module_name, maybe_error_type_name) ==
    IF maybe_error_type_name = None THEN None
    ELSE Some([vis |-> "pub", path |-> <<module_name, Unwrap(maybe_error_type_name)>>])

\* let error_type_import = match maybe_error_type_name { None => quote!(), Some => #vis use .. }
error_type_import(v, module_name, maybe_error_type_name) ==
    IF maybe_error_type_name = None THEN None
    ELSE Some([vis |-> v, path |-> <<module_name, Unwrap(maybe_error_type_name)>>])

gen_nutype_for_float(v, type_name, m, trs) ==
    LET module_name == gen_module_name_for_type(type_name)
        impl == gen_implementation(type_name, m)
        maybe_error_type_name == float_maybe_error_type_name(type_name, m)
        import == error_type_import(v, module_name, maybe_error_type_name)
        gen == float_gen_traits(type_name, maybe_error_type_name, trs)
    IN  [module |-> [name |-> module_name,
                     derive_standard_traits |-> gen.derive_standard_traits,
                     struct |-> type_name,
                     implementation |-> impl,
                     implement_traits |-> gen.implement_traits],
         type_import |-> [vis |-> v, path |-> <<module_name, type_name>>],
         error_type_import |-> import]

(***************************************************************************)
(* The generated methods.                                                  *)
(***************************************************************************)
Wrapper(value) == [inner |-> value]

\* pub fn into_inner(self) -> T { self.0 }
into_inner(self) == self.inner

\* let sanitized_value = sanitize(raw_value);
new_sanitize(impl, raw) ==
    RunSanitize(impl.convert_implementation.sanitize.transformations, raw)

\* Self(sanitize(raw_value))
new_without_validation_wrap(sanitized) == [tag |-> "Ok", value |-> Wrapper(sanitized)]

new_validate_ResultIgnored(impl, sanitized) ==
    LET r == RunValidate(Unwrap(impl.convert_implementation.validate).validations, sanitized, 0)
    IN  [tag |-> "Ok", consulted |-> r.consulted]

\* validate(sanitized_value)?
new_validate(impl, sanitized) ==
    RunValidate(Unwrap(impl.convert_implementation.validate).validations, sanitized, 0)

\* Ok(#type_name(sanitized_value))
new_with_validation_wrap(sanitized) == [tag |-> "Ok", value |-> Wrapper(sanitized)]

NoResult == [tag |-> "None"]

(***************************************************************************)
(* Each specification exercises one component; the variables of the other  *)
(* components stay at their idle values.                                   *)
(***************************************************************************)
FloatIdle ==
    /\ meta = [kind |-> "From", sanitizers |-> <<>>, validators |-> <<>>]
    /\ vis = "pub"
    /\ traits = {}
    /\ artifact = None
    /\ implementation = None
    /\ pc = "Idle"
    /\ raw_value = NaN
    /\ sanitized_value = None
    /\ consulted = 0
    /\ result = NoResult
    /\ extracted = None

GuardIdle ==
    /\ raw_guard = [sanitizers |-> <<>>, validators |-> <<>>]
    /\ guard_result = NoResult

TraitsIdle ==
    /\ guard = [kind |-> "WithoutValidation", sanitizers |-> <<>>]
    /\ spanned_derive_traits = <<>>
    /\ maybe_default_value = None
    /\ derive_traits = NoResult
    /\ generated = NoResult

ParseIdle ==
    /\ features = {}
    /\ input = <<>>
    /\ attributes = NoResult
    /\ parseable_attributes = NoResult
    /\ derive_attrs = <<>>
    /\ parsed_derive_traits = NoResult

(***************************************************************************)
(* Specification SpecGen: macro expansion of one float wrapper.            *)
(***************************************************************************)
InitGen ==
    /\ meta \in NewtypeFloatMeta
    /\ vis \in Visibilities
    /\ traits \in FloatDeriveTraitSets
    /\ artifact = None
    /\ implementation = None
    /\ pc = "Expand"
    /\ raw_value = NaN
    /\ sanitized_value = None
    /\ consulted = 0
    /\ result = NoResult
    /\ extracted = None
    /\ GuardIdle
    /\ TraitsIdle
    /\ ParseIdle

GenNutypeForFloat ==
    /\ pc = "Expand"
    /\ artifact' = Some(gen_nutype_for_float(vis, TypeName, meta, traits))
    /\ pc' = "Expanded"
    /\ UNCHANGED <<meta, vis, traits, implementation, raw_value, sanitized_value,
                   consulted, result, extracted>>
    /\ UNCHANGED <<guardVars, traitVars, parseVars>>

NextGen == GenNutypeForFloat

SpecGen == InitGen /\ [][NextGen]_vars

(***************************************************************************)
(* Specification SpecNew: one call of the generated new(), followed by     *)
(* into_inner() on the wrapper it returned.                                *)
(***************************************************************************)
InitNew ==
    /\ meta \in NewtypeFloatMeta
    /\ vis = "pub"
    /\ traits = {}
    /\ artifact = None
    /\ implementation = Some(gen_implementation(TypeName, meta))
    /\ pc = "RawInput"
    /\ raw_value \in FloatValues
    /\ sanitized_value = None
    /\ consulted = 0
    /\ result = NoResult
    /\ extracted = None
    /\ GuardIdle
    /\ TraitsIdle
    /\ ParseIdle

Impl == Unwrap(implementation)

NewSanitize ==
    /\ pc = "RawInput"
    /\ LET value == new_sanitize(Impl, raw_value)
       IN  IF IsPanic(value)
           THEN /\ result' = value
                /\ sanitized_value' = sanitized_value
                /\ pc' = "Panicked"
           ELSE /\ result' = result
                /\ sanitized_value' = Some(value)
                /\ pc' = "Sanitized"
    /\ UNCHANGED <<meta, vis, traits, artifact, implementation, raw_value,
                   consulted, extracted>>
    /\ UNCHANGED <<guardVars, traitVars, parseVars>>

NewWithoutValidationReturn ==
    /\ pc = "Sanitized"
    /\ Impl.convert_implementation.returns = "Self"
    /\ result' = new_without_validation_wrap(Unwrap(sanitized_value))
    /\ pc' = "Constructed"
    /\ UNCHANGED <<meta, vis, traits, artifact, implementation, raw_value,
                   sanitized_value, consulted, extracted>>
    /\ UNCHANGED <<guardVars, traitVars, parseVars>>

NewValidate ==
    /\ pc = "Sanitized"
    /\ Impl.convert_implementation.returns = "Result"
    /\ LET r == new_validate(Impl, Unwrap(sanitized_value))
       IN  /\ consulted' = r.consulted
           /\ IF r.tag = "Err"
              THEN /\ result' = [tag |-> "Err", err |-> r.err]
                   /\ pc' = "Error"
              ELSE /\ result' = result
                   /\ pc' = "Validated"
    /\ UNCHANGED <<meta, vis, traits, artifact, implementation, raw_value,
                   sanitized_value, extracted>>
    /\ UNCHANGED <<guardVars, traitVars, parseVars>>

NewWithValidationReturn ==
    /\ pc = "Validated"
    /\ result' = new_with_validation_wrap(Unwrap(sanitized_value))
    /\ pc' = "Constructed"
    /\ UNCHANGED <<meta, vis, traits, artifact, implementation, raw_value,
                   sanitized_value, consulted, extracted>>
    /\ UNCHANGED <<guardVars, traitVars, parseVars>>

IntoInner ==
    /\ pc = "Constructed"
    /\ extracted = None
    /\ extracted' = Some(into_inner(result.value))
    /\ UNCHANGED <<meta, vis, traits, artifact, implementation, pc, raw_value,
                   sanitized_value, consulted, result>>
    /\ UNCHANGED <<guardVars, traitVars, parseVars>>

NextNew ==
    \/ NewSanitize
    \/ NewWithoutValidationReturn
    \/ NewValidate
    \/ NewWithValidationReturn
    \/ IntoInner

SpecNew == InitNew /\ [][NextNew]_vars

\* new() is straight-line code over total closures: a call that has started
\* runs to its return.
SpecNewFair == SpecNew /\ WF_vars(NextNew)

(***************************************************************************)
(* Vocabulary of the properties of the constructor: what the rules mean,   *)
(* stated on the attribute model rather than on the emitted statements.    *)
(***************************************************************************)
MinOf(a, b) == IF a < b THEN a ELSE b
MaxOf(a, b) == IF a > b THEN a ELSE b

ApplySanitizer(san, x) ==
    IF san.kind = "Clamp"
    THEN IF x.nan THEN x ELSE Fl(MaxOf(san.min.v, MinOf(x.v, san.max.v)))
    ELSE IF x.nan THEN x
    ELSE IF san.f = "neg" THEN Fl(-(x.v))
    ELSE Fl(MaxOf(x.v, -(x.v)))

\* The sanitizers applied in declaration order, each consuming the previous output.
RECURSIVE ApplyAll(_, _)
ApplyAll(sans, x) ==
    IF Len(sans) = 0 THEN x
    ELSE ApplySanitizer(sans[Len(sans)], ApplyAll(SubSeq(sans, 1, Len(sans) - 1), x))

Violates(validator, x) ==
    IF validator.kind = "Max" THEN FloatGt(x, validator.bound)
    ELSE IF validator.kind = "Min" THEN FloatLt(x, validator.bound)
    ELSE IF validator.f = "is_finite" THEN x.nan
    ELSE ~x.nan /\ x.v = 0

\* Index of the first validator that x violates, 0 when it violates none.
FirstViolated(validators, x) ==
    LET bad == {i \in 1..Len(validators) : Violates(validators[i], x)}
    IN  IF bad = {} THEN 0 ELSE CHOOSE i \in bad : \A j \in bad : i <= j

ErrorVariant(validator) ==
    <<gen_error_type_name(TypeName),
      CASE validator.kind = "Max" -> "TooBig"
        [] validator.kind = "Min" -> "TooSmall"
        [] OTHER -> "Invalid">>

Fallible == meta.kind = "TryFrom"
ValidationDone == pc \in {"Validated", "Error", "Constructed"}
SanitizedRef == ApplyAll(meta.sanitizers, raw_value)

\* C1: for a fallible wrapper, new() sanitizes, then checks the validators in
\* declaration order on the sanitized value; when V is the first validator
\* the sanitized value violates, new() returns exactly the error variant of V,
\* produces no wrapper, and consults no validator after V.
C1_FirstViolatedValidatorError ==
    (Fallible /\ ValidationDone /\ FirstViolated(meta.validators, SanitizedRef) # 0) =>
        LET k == FirstViolated(meta.validators, SanitizedRef)
        IN  /\ pc = "Error"
            /\ result = [tag |-> "Err", err |-> ErrorVariant(meta.validators[k])]
            /\ consulted = k
            /\ extracted = None

C1_Witness ==
    /\ Fallible
    /\ pc = "Error"
    /\ Len(meta.validators) = 2
    /\ consulted = 2
    /\ result.err[2] = "TooBig"
    /\ Unwrap(sanitized_value) # raw_value
    /\ Violates(meta.validators[1], raw_value)

\* C2: in every Constructed state of a fallible wrapper the stored value is the
\* fully sanitized raw input, it passes every declared validator, and
\* into_inner returns exactly that value without validating again.
C2_ConstructedInvariant ==
    (Fallible /\ pc = "Constructed") =>
        /\ result.tag = "Ok"
        /\ result.value.inner = SanitizedRef
        /\ \A i \in 1..Len(meta.validators) :
              ~Violates(meta.validators[i], result.value.inner)
        /\ consulted = Len(meta.validators)
        /\ extracted # None => Unwrap(extracted) = result.value.inner

C2_Witness ==
    /\ Fallible
    /\ pc = "Constructed"
    /\ extracted # None
    /\ Len(meta.validators) = 2
    /\ meta.validators[1].kind = "Max"
    /\ meta.validators[2].kind = "Min"
    /\ Unwrap(extracted) # raw_value
    /\ Violates(meta.validators[1], raw_value)

\* C3: for an infallible wrapper and every raw input x, new(x) never fails:
\* it returns the wrapper itself, not a result and not an error, and
\* new(x).into_inner() is x with every sanitizer applied in declaration order.
C3_InfallibleRoundTrip ==
    (~Fallible) =>
        /\ Impl.convert_implementation.returns = "Self"
        /\ pc \notin {"Validated", "Error", "Panicked"}
        /\ result.tag \notin {"Err", "Panic"}
        /\ pc = "Constructed" => (result.tag = "Ok" /\ result.value.inner = SanitizedRef)
        /\ extracted # None => Unwrap(extracted) = SanitizedRef

\* C6: the emitted artifact defines and re-exports the error type, under the
\* caller's visibility (the one used for the wrapper), exactly when the guard
\* is fallible; new() returns a Result with that error type exactly then; for
\* an infallible guard no error type is defined, re-exported or handed to the
\* trait generator.
C6_ErrorTypeIffFallible ==
    (artifact # None) =>
        LET a == Unwrap(artifact)
            conv == a.module.implementation.convert_implementation
        IN  /\ (conv.validation_error # None) <=> Fallible
            /\ (a.error_type_import # None) <=> Fallible
            /\ (conv.returns = "Result") <=> Fallible
            /\ (a.module.implement_traits.maybe_error_type_name # None) <=> Fallible
            /\ a.type_import.vis = vis
            /\ Fallible =>
                  LET import == Unwrap(a.error_type_import)
                      error_type == Unwrap(conv.validation_error)
                  IN  /\ import.vis = vis
                      /\ import.vis = a.type_import.vis
                      /\ import.path = <<a.module.name, error_type.name>>
                      /\ conv.error_type_name = Some(error_type.name)
                      /\ a.module.implement_traits.maybe_error_type_name
                            = Some(error_type.name)
            /\ ~Fallible => (conv.returns = "Self" /\ conv.error_type_name = None)

C6_Witness ==
    /\ artifact # None
    /\ Fallible
    /\ vis = "pub(crate)"
    /\ Unwrap(artifact).error_type_import # None
    /\ Len(Unwrap(Unwrap(artifact).module.implementation.convert_implementation.validation_error).variants) = 2

(***************************************************************************)
(* Guard validation: nutype_macros/src/any/validate.rs                     *)
(***************************************************************************)
AnySanitizerKind == {"Clamp", "With"}
AnyValidatorKind == {"Min", "Max", "With"}

\* The payloads written in the rules of a raw guard.
RuleArgs == {0, 1}

\* SpannedItem<T> { item, span }: the span is the position of the rule.
SpannedRules(kinds) ==
    {[i \in 1..Len(s) |-> [item |-> s[i], span |-> i]] :
        s \in SeqsUpTo([kind : kinds, arg : RuleArgs], MaxRules)}

AnyRawGuard ==
    [sanitizers : SpannedRules(AnySanitizerKind), validators : SpannedRules(AnyValidatorKind)]

Ok(v) == [tag |-> "Ok", value |-> v]
Err(e) == [tag |-> "Err", error |-> e]

\* common::validate::validate_duplicates: the first pair of distinct positions
\* holding rules of the same kind, in the order of the two nested loops.
DuplicatePairs(items) ==
    {p \in (1..Len(items)) \X (1..Len(items)) :
        p[1] # p[2] /\ items[p[1]].item.kind = items[p[2]].item.kind}

FirstPair(pairs) ==
    CHOOSE p \in pairs :
        \A q \in pairs : p[1] < q[1] \/ (p[1] = q[1] /\ p[2] <= q[2])

\* The closure build_error_msg is applied by the caller to the reported kind.
validate_duplicates(items) ==
    IF DuplicatePairs(items) = {} THEN Ok(<<>>)
    ELSE LET p == FirstPair(DuplicatePairs(items))
         IN  [tag |-> "Err", kind |-> items[p[1]].item.kind,
              span |-> <<items[p[1]].span, items[p[2]].span>>]

DuplicatedValidatorsMsg(kind) == [text |-> "Duplicated validators", kind |-> kind]
DuplicatedSanitizerMsg(kind) == [text |-> "Duplicated sanitizer", kind |-> kind]

Items(spanned) == [i \in 1..Len(spanned) |-> spanned[i].item]

validate_validators_Unchecked(validators) == Ok(Items(validators))

validate_validators(validators) ==
    LET dup == validate_duplicates(validators)
    IN  IF dup.tag = "Err"
        THEN Err([msg |-> DuplicatedValidatorsMsg(dup.kind), span |-> dup.span])
        ELSE Ok(Items(validators))

validate_sanitizers(sanitizers) ==
    LET dup == validate_duplicates(sanitizers)
    IN  IF dup.tag = "Err"
        THEN Err([msg |-> DuplicatedSanitizerMsg(dup.kind), span |-> dup.span])
        ELSE Ok(Items(sanitizers))

WithoutValidation(sanitizers) == [kind |-> "WithoutValidation", sanitizers |-> sanitizers]
WithValidation(sanitizers, validators) ==
    [kind |-> "WithValidation", sanitizers |-> sanitizers, validators |-> validators]

validate_any_guard_SanitizersFirst(rg) ==
    LET sanitizers == validate_sanitizers(rg.sanitizers)
    IN  IF sanitizers.tag = "Err" THEN sanitizers
        ELSE LET validators == validate_validators(rg.validators)
             IN  IF validators.tag = "Err" THEN validators
                 ELSE IF validators.value = <<>>
                 THEN Ok(WithoutValidation(sanitizers.value))
                 ELSE Ok(WithValidation(sanitizers.value, validators.value))

validate_any_guard_AlwaysWithValidation(rg) ==
    LET validators == validate_validators(rg.validators)
    IN  IF validators.tag = "Err" THEN validators
        ELSE LET sanitizers == validate_sanitizers(rg.sanitizers)
             IN  IF sanitizers.tag = "Err" THEN sanitizers
                 ELSE Ok(WithValidation(sanitizers.value, validators.value))

validate_any_guard(rg) ==
    LET validators == validate_validators(rg.validators)
    IN  IF validators.tag = "Err" THEN validators
        ELSE LET sanitizers == validate_sanitizers(rg.sanitizers)
             IN  IF sanitizers.tag = "Err" THEN sanitizers
                 ELSE IF validators.value = <<>>
                 THEN Ok(WithoutValidation(sanitizers.value))
                 ELSE Ok(WithValidation(sanitizers.value, validators.value))

(***************************************************************************)
(* Specification SpecGuard: one call of validate_any_guard.                *)
(***************************************************************************)
InitGuard ==
    /\ raw_guard \in AnyRawGuard
    /\ guard_result = NoResult
    /\ FloatIdle
    /\ TraitsIdle
    /\ ParseIdle

ValidateAnyGuard ==
    /\ guard_result = NoResult
    /\ guard_result' = validate_any_guard(raw_guard)
    /\ UNCHANGED <<raw_guard, floatVars, traitVars, parseVars>>

NextGuard == ValidateAnyGuard

SpecGuard == InitGuard /\ [][NextGuard]_vars

\* The kinds that occur more than once in a list of spanned rules.
RepeatedKinds(spanned) ==
    {k \in {spanned[i].item.kind : i \in 1..Len(spanned)} :
        Cardinality({i \in 1..Len(spanned) : spanned[i].item.kind = k}) > 1}

SameRules(items, spanned) ==
    /\ Len(items) = Len(spanned)
    /\ \A i \in 1..Len(spanned) : items[i] = spanned[i].item

\* C4: when validate_any_guard succeeds it returns WithoutValidation carrying
\* the sanitizers iff the validator list is empty, and otherwise
\* WithValidation carrying both lists, each with the same elements in the
\* same order as in the raw guard.
C4_GuardClassification ==
    (guard_result.tag = "Ok") =>
        LET g == guard_result.value
        IN  /\ (g.kind = "WithoutValidation") <=> (raw_guard.validators = <<>>)
            /\ g.kind \in {"WithoutValidation", "WithValidation"}
            /\ SameRules(g.sanitizers, raw_guard.sanitizers)
            /\ g.kind = "WithoutValidation" => DOMAIN g = {"kind", "sanitizers"}
            /\ g.kind = "WithValidation" => SameRules(g.validators, raw_guard.validators)

C4_Witness ==
    /\ guard_result.tag = "Ok"
    /\ guard_result.value.kind = "WithValidation"
    /\ Len(raw_guard.validators) = 2
    /\ Len(raw_guard.sanitizers) = 2
    /\ raw_guard.sanitizers[1].item.kind # raw_guard.sanitizers[2].item.kind

\* C5: validate_any_guard returns an error naming the offending kind, and no
\* guard, whenever a sanitizer kind or a validator kind occurs more than once
\* in the raw guard; it succeeds whenever every kind occurs at most once.
C5_DuplicateRuleRejected ==
    (guard_result # NoResult) =>
        LET dupV == RepeatedKinds(raw_guard.validators)
            dupS == RepeatedKinds(raw_guard.sanitizers)
        IN  /\ (dupV # {} \/ dupS # {}) =>
                  /\ guard_result.tag = "Err"
                  /\ \/ /\ guard_result.error.msg.text = "Duplicated validators"
                        /\ guard_result.error.msg.kind \in dupV
                     \/ /\ guard_result.error.msg.text = "Duplicated sanitizer"
                        /\ guard_result.error.msg.kind \in dupS
            /\ (dupV = {} /\ dupS = {}) => guard_result.tag = "Ok"

C5_Witness ==
    /\ guard_result.tag = "Err"
    /\ guard_result.error.msg = [text |-> "Duplicated validators", kind |-> "Min"]
    /\ Len(raw_guard.validators) = 2
    /\ raw_guard.validators[1].item = [kind |-> "Min", arg |-> 0]
    /\ raw_guard.validators[2].item = [kind |-> "Min", arg |-> 1]

(***************************************************************************)
(* Derive traits of an arbitrary inner type:                               *)
(* nutype_macros/src/any/validate.rs and any/gen/traits/mod.rs             *)
(***************************************************************************)
\* common::models::DeriveTrait, the traits a caller can request.
DeriveTrait ==
    {"Debug", "Clone", "Copy", "PartialEq", "Eq", "Ord", "PartialOrd", "Display",
     "AsRef", "Into", "From", "Deref", "Borrow", "FromStr", "TryFrom", "Default",
     "SerdeSerialize", "SerdeDeserialize", "Hash", "ArbitraryArbitrary",
     "DieselNewType", "SchemarsJsonSchema"}

\* The requests used for the longer lists.
CoreDeriveTrait == {"Debug", "Display", "Default", "ArbitraryArbitrary", "SchemarsJsonSchema"}

AnyTrait(name) == [any |-> name]

\* any::models::AnyDeriveTrait
AnyDeriveTrait == {AnyTrait(t) : t \in DeriveTrait \ {"SchemarsJsonSchema"}}

has_validation(g) == g.kind = "WithValidation"

to_any_derive_trait_ArbitraryNeedsNoValidation(tr, _has_validation, span) ==
    IF tr = "SchemarsJsonSchema" \/ (tr = "ArbitraryArbitrary" /\ _has_validation)
    THEN Err([span |-> span,
              msg |-> [text |-> "is not (yet) supported for an arbitrary type",
                       trait |-> tr]])
    ELSE Ok(AnyTrait(tr))

to_any_derive_trait(tr, _has_validation, span) ==
    CASE tr = "Debug" -> Ok(AnyTrait("Debug"))
      [] tr = "Clone" -> Ok(AnyTrait("Clone"))
      [] tr = "Copy" -> Ok(AnyTrait("Copy"))
      [] tr = "PartialEq" -> Ok(AnyTrait("PartialEq"))
      [] tr = "Eq" -> Ok(AnyTrait("Eq"))
      [] tr = "Ord" -> Ok(AnyTrait("Ord"))
      [] tr = "PartialOrd" -> Ok(AnyTrait("PartialOrd"))
      [] tr = "Display" -> Ok(AnyTrait("Display"))
      [] tr = "AsRef" -> Ok(AnyTrait("AsRef"))
      [] tr = "Into" -> Ok(AnyTrait("Into"))
      [] tr = "From" -> Ok(AnyTrait("From"))
      [] tr = "Deref" -> Ok(AnyTrait("Deref"))
      [] tr = "Borrow" -> Ok(AnyTrait("Borrow"))
      [] tr = "FromStr" -> Ok(AnyTrait("FromStr"))
      [] tr = "TryFrom" -> Ok(AnyTrait("TryFrom"))
      [] tr = "Default" -> Ok(AnyTrait("Default"))
      [] tr = "SerdeSerialize" -> Ok(AnyTrait("SerdeSerialize"))
      [] tr = "SerdeDeserialize" -> Ok(AnyTrait("SerdeDeserialize"))
      [] tr = "Hash" -> Ok(AnyTrait("Hash"))
      [] tr = "ArbitraryArbitrary" -> Ok(AnyTrait("ArbitraryArbitrary"))
      [] tr = "DieselNewType" -> Ok(AnyTrait("DieselNewType"))
      [] tr = "SchemarsJsonSchema" ->
            Err([span |-> span,
                 msg |-> [text |-> "is not (yet) supported for an arbitrary type",
                          trait |-> tr]])

\* A HashSet is modelled by the sequence of its distinct elements; the order
\* in which it is iterated is chosen when it is iterated.
EmptyHashSet == <<>>

HashSetInsert_Push(set, x) == Append(set, x)

HashSetInsert(set, x) == IF x \in Range(set) THEN set ELSE Append(set, x)

\* for spanned_trait in spanned_derive_traits { traits.insert(to_any_derive_trait(..)?) }
RECURSIVE validate_any_derive_traits_loop(_, _, _)
validate_any_derive_traits_loop(hv, rest, set) ==
    IF rest = <<>> THEN Ok(set)
    ELSE LET r == to_any_derive_trait(Head(rest).item, hv, Head(rest).span)
         IN  IF r.tag = "Err" THEN r
             ELSE validate_any_derive_traits_loop(hv, Tail(rest), HashSetInsert(set, r.value))

validate_any_derive_traits(g, spanned) ==
    validate_any_derive_traits_loop(has_validation(g), spanned, EmptyHashSet)

Transparent(t) == [kind |-> "Transparent", trait |-> t]
Irregular(t) == [kind |-> "Irregular", trait |-> t]

from_any_derive_trait_DisplayDerived(derive_trait) ==
    IF derive_trait.any \in {"Debug", "Clone", "Copy", "Hash", "PartialEq", "Eq",
                             "PartialOrd", "Ord", "DieselNewType", "Display"}
    THEN Transparent(derive_trait.any)
    ELSE Irregular(derive_trait.any)

\* impl From<AnyDeriveTrait> for AnyGeneratableTrait
from_any_derive_trait(derive_trait) ==
    CASE derive_trait = AnyTrait("Debug") -> Transparent("Debug")
      [] derive_trait = AnyTrait("Clone") -> Transparent("Clone")
      [] derive_trait = AnyTrait("Copy") -> Transparent("Copy")
      [] derive_trait = AnyTrait("Hash") -> Transparent("Hash")
      [] derive_trait = AnyTrait("PartialEq") -> Transparent("PartialEq")
      [] derive_trait = AnyTrait("Eq") -> Transparent("Eq")
      [] derive_trait = AnyTrait("PartialOrd") -> Transparent("PartialOrd")
      [] derive_trait = AnyTrait("Ord") -> Transparent("Ord")
      [] derive_trait = AnyTrait("AsRef") -> Irregular("AsRef")
      [] derive_trait = AnyTrait("From") -> Irregular("From")
      [] derive_trait = AnyTrait("Into") -> Irregular("Into")
      [] derive_trait = AnyTrait("Display") -> Irregular("Display")
      [] derive_trait = AnyTrait("Deref") -> Irregular("Deref")
      [] derive_trait = AnyTrait("Borrow") -> Irregular("Borrow")
      [] derive_trait = AnyTrait("FromStr") -> Irregular("FromStr")
      [] derive_trait = AnyTrait("TryFrom") -> Irregular("TryFrom")
      [] derive_trait = AnyTrait("Default") -> Irregular("Default")
      [] derive_trait = AnyTrait("SerdeSerialize") -> Irregular("SerdeSerialize")
      [] derive_trait = AnyTrait("SerdeDeserialize") -> Irregular("SerdeDeserialize")
      [] derive_trait = AnyTrait("ArbitraryArbitrary") -> Irregular("ArbitraryArbitrary")
      [] derive_trait = AnyTrait("DieselNewType") -> Transparent("DieselNewType")

\* impl ToTokens for AnyTransparentTrait
to_tokens(transparent_trait) ==
    IF transparent_trait = "DieselNewType"
    THEN "::diesel_derive_newtype::DieselNewType"
    ELSE transparent_trait

\* The orders in which a HashSet can be iterated.
Perms(n) == {p \in [1..n -> 1..n] : \A i, j \in 1..n : i # j => p[i] # p[j]}
IterationOrders(set) == {[i \in 1..Len(set) |-> set[p[i]]] : p \in Perms(Len(set))}

IsTransparent(g) == g.kind = "Transparent"
IsIrregular(g) == g.kind = "Irregular"
Traits(gs) == [i \in 1..Len(gs) |-> gs[i].trait]

\* common::gen::traits::split_into_generatable_traits: one pass over the set,
\* pushing each trait to the vector of its class.
split_into_generatable_traits(order) ==
    LET gs == [i \in 1..Len(order) |-> from_any_derive_trait(order[i])]
    IN  [transparent_traits |-> Traits(SelectSeq(gs, IsTransparent)),
         irregular_traits |-> Traits(SelectSeq(gs, IsIrregular))]

\* any::gen::traits::arbitrary::gen_impl_trait_arbitrary: nothing is known about
\* the inner type, so a type with validation cannot be given an implementation.
gen_impl_trait_arbitrary(type_name, inner_type, g) ==
    IF has_validation(g)
    THEN Err([span |-> "call_site",
              msg |-> [text |-> "Cannot derive Arbitrary for a type with validation",
                       trait |-> "ArbitraryArbitrary"]])
    ELSE Ok([impl |-> "ArbitraryArbitrary", type_name |-> type_name])

\* The closure of gen_implemented_traits: one implementation block per trait.
gen_implemented_trait(t, type_name, inner_type, maybe_error_type_name, default_value, g) ==
    CASE t \in {"AsRef", "From", "Into", "Deref", "Borrow"} ->
            Ok([impl |-> t, type_name |-> type_name, inner_type |-> inner_type])
      [] t \in {"Display", "SerdeSerialize"} ->
            Ok([impl |-> t, type_name |-> type_name])
      [] t \in {"FromStr", "TryFrom", "SerdeDeserialize"} ->
            Ok([impl |-> t, type_name |-> type_name, inner_type |-> inner_type,
                maybe_error_type_name |-> maybe_error_type_name])
      [] t = "Default" ->
            IF default_value # None
            THEN Ok([impl |-> t, type_name |-> type_name,
                     default_value |-> Unwrap(default_value),
                     has_validation |-> IsSome(maybe_error_type_name)])
            ELSE Panic([text |-> "Default trait is derived for type, but default = is missing",
                        type_name |-> type_name])
      [] t = "ArbitraryArbitrary" -> gen_impl_trait_arbitrary(type_name, inner_type, g)

\* impl_traits.iter().map(..).collect(): blocks in order, up to the first error.
RECURSIVE gen_implemented_traits_collect(_, _, _, _, _, _, _)
gen_implemented_traits_collect(rest, blocks, type_name, inner_type, maybe_error_type_name, default_value, g) ==
    IF rest = <<>> THEN Ok(blocks)
    ELSE LET r == gen_implemented_trait(Head(rest), type_name, inner_type,
                                        maybe_error_type_name, default_value, g)
         IN  IF r.tag # "Ok" THEN r
             ELSE gen_implemented_traits_collect(Tail(rest), Append(blocks, r.value),
                      type_name, inner_type, maybe_error_type_name, default_value, g)

gen_implemented_traits(type_name, inner_type, maybe_error_type_name, impl_traits, default_value, g) ==
    gen_implemented_traits_collect(impl_traits, <<>>, type_name, inner_type,
                                   maybe_error_type_name, default_value, g)

\* gen_traits, applied to the requested set in the order it is iterated.
gen_traits(type_name, inner_type, maybe_error_type_name, order, default_value, g) ==
    LET split == split_into_generatable_traits(order)
        derive_transparent_traits ==
            [i \in 1..Len(split.transparent_traits) |-> to_tokens(split.transparent_traits[i])]
        implement_traits ==
            gen_implemented_traits(type_name, inner_type, maybe_error_type_name,
                                   split.irregular_traits, default_value, g)
    IN  IF implement_traits.tag # "Ok" THEN implement_traits
        ELSE Ok([derive_transparent_traits |-> derive_transparent_traits,
                 implement_traits |-> implement_traits.value])

\* The error type exists exactly for a guard with validation.
any_maybe_error_type_name(type_name, g) ==
    IF has_validation(g) THEN Some(gen_error_type_name(type_name)) ELSE None

InnerType == "Point"

TraitGuards ==
    {WithoutValidation(<<>>),
     WithValidation(<<>>, <<[kind |-> "With", arg |-> 0]>>)}

Spanned(items) == [i \in 1..Len(items) |-> [item |-> items[i], span |-> i]]

DeriveRequests ==
    {Spanned(s) : s \in SeqsUpTo(DeriveTrait, MaxDerive)
                        \cup [1..(MaxDerive + 1) -> CoreDeriveTrait]}

DefaultValues == {None, Some("default_expr")}

(***************************************************************************)
(* Specification SpecTraits: the derive requests of one wrapper are        *)
(* resolved by validate_any_derive_traits and handed to gen_traits.        *)
(***************************************************************************)
InitTraits ==
    /\ guard \in TraitGuards
    /\ spanned_derive_traits \in DeriveRequests
    /\ maybe_default_value \in DefaultValues
    /\ derive_traits = NoResult
    /\ generated = NoResult
    /\ FloatIdle
    /\ GuardIdle
    /\ ParseIdle

ValidateAnyDeriveTraits ==
    /\ derive_traits = NoResult
    /\ derive_traits' = validate_any_derive_traits(guard, spanned_derive_traits)
    /\ UNCHANGED <<guard, spanned_derive_traits, maybe_default_value, generated>>
    /\ UNCHANGED <<floatVars, guardVars, parseVars>>

GenTraits ==
    /\ derive_traits.tag = "Ok"
    /\ generated = NoResult
    /\ \E order \in IterationOrders(derive_traits.value) :
          generated' = gen_traits(TypeName, InnerType,
                                  any_maybe_error_type_name(TypeName, guard),
                                  order, maybe_default_value, guard)
    /\ UNCHANGED <<guard, spanned_derive_traits, maybe_default_value, derive_traits>>
    /\ UNCHANGED <<floatVars, guardVars, parseVars>>

NextTraits == ValidateAnyDeriveTraits \/ GenTraits

SpecTraits == InitTraits /\ [][NextTraits]_vars

\* The requested traits, as the caller wrote them.
Requested == {spanned_derive_traits[i].item : i \in 1..Len(spanned_derive_traits)}

NoDuplicates(seq) == \A i, j \in 1..Len(seq) : i # j => seq[i] # seq[j]

DeriveEntries == Range(generated.value.derive_transparent_traits)
ImplBlocks == {generated.value.implement_traits[i].impl :
                  i \in 1..Len(generated.value.implement_traits)}

\* How a derived trait is written in #[derive(...)].
DeriveEntry(t) == IF t = "DieselNewType" THEN "::diesel_derive_newtype::DieselNewType" ELSE t

IsDerived(t) == DeriveEntry(t) \in DeriveEntries /\ t \notin ImplBlocks
IsImplemented(t) == t \in ImplBlocks /\ DeriveEntry(t) \notin DeriveEntries

\* The classes the traits are stated to belong to.
StatedTransparent == {"PartialEq", "Eq", "PartialOrd", "Ord", "Hash", "Clone", "Debug"}
StatedIrregular ==
    {"From", "Into", "TryFrom", "AsRef", "Display", "Default", "SerdeSerialize",
     "SerdeDeserialize", "FromStr", "ArbitraryArbitrary"}

\* C7: every requested trait is resolved to exactly one of Transparent or
\* Irregular, never both and never dropped; equality, ordering, hashing, clone
\* and debug are Transparent; conversion, display, default, (de)serialization,
\* string parsing and randomized instances are Irregular; in a generated
\* artifact every Transparent trait of the request is in the derive list and
\* every Irregular one has an implementation block.
C7_PartitionTotal ==
    /\ \A t \in AnyDeriveTrait :
          /\ from_any_derive_trait(t).kind \in {"Transparent", "Irregular"}
          /\ from_any_derive_trait(t).trait = t.any
    /\ \A n \in StatedTransparent : from_any_derive_trait(AnyTrait(n)) = Transparent(n)
    /\ \A n \in StatedIrregular : from_any_derive_trait(AnyTrait(n)) = Irregular(n)
    /\ generated.tag = "Ok" =>
          /\ \A t \in Requested :
                /\ IsDerived(t) \/ IsImplemented(t)
                /\ t \in StatedTransparent => IsDerived(t)
                /\ t \in StatedIrregular => IsImplemented(t)
          /\ Cardinality(DeriveEntries) + Cardinality(ImplBlocks) = Cardinality(Requested)

C7_Witness ==
    /\ generated.tag = "Ok"
    /\ Len(spanned_derive_traits) = 3
    /\ Requested = {"Debug", "Display", "Default"}
    /\ generated.value.derive_transparent_traits = <<"Debug">>
    /\ ImplBlocks = {"Display", "Default"}

\* C8: when Default is requested and no default expression was supplied,
\* gen_traits returns a configuration error naming `default` and produces no
\* GeneratedTraits; when the expression is supplied the Default block is
\* generated with has_validation true exactly when an error type exists.
C8_MissingDefaultIsDiagnostic ==
    (generated # NoResult /\ "Default" \in Requested) =>
        IF maybe_default_value = None
        THEN /\ generated.tag = "Err"
             /\ generated.error.msg.trait = "Default"
        ELSE generated.tag = "Ok" =>
                \E i \in 1..Len(generated.value.implement_traits) :
                    LET b == generated.value.implement_traits[i]
                    IN  /\ b.impl = "Default"
                        /\ b.has_validation = has_validation(guard)

\* C10: for any list of derive requests, also one that requests a trait
\* several times, validate_any_derive_traits yields a set holding each
\* requested trait once, and gen_traits emits at most one derive entry per
\* Transparent trait and at most one implementation block per Irregular trait.
C10_NoDoubleEmission ==
    /\ derive_traits.tag = "Ok" =>
          /\ NoDuplicates(derive_traits.value)
          /\ Range(derive_traits.value) = {AnyTrait(t) : t \in Requested}
    /\ generated.tag = "Ok" =>
          /\ NoDuplicates(generated.value.derive_transparent_traits)
          /\ NoDuplicates([i \in 1..Len(generated.value.implement_traits) |->
                              generated.value.implement_traits[i].impl])

C10_Witness ==
    /\ Len(spanned_derive_traits) = 3
    /\ spanned_derive_traits[1].item = "Display"
    /\ spanned_derive_traits[2].item = "Debug"
    /\ spanned_derive_traits[3].item = "Display"
    /\ generated.tag = "Ok"
    /\ Len(generated.value.implement_traits) = 1
    /\ Len(generated.value.derive_transparent_traits) = 1

(***************************************************************************)
(* Attribute parsing: nutype_macros/src/common/parse/mod.rs                *)
(***************************************************************************)
\* proc_macro2::TokenTree.  A group carries its delimiter and the tokens of
\* its stream.  The tokens used here: identifiers that are no keywords,
\* literals, the punctuation marks = , - * # (each a token of its own), and
\* groups in parentheses or square brackets.
Ident(n) == [tt |-> "Ident", name |-> n]
Group(delimiter, stream) == [tt |-> "Group", delimiter |-> delimiter, stream |-> stream]
Punct(c) == [tt |-> "Punct", ch |-> c]
Literal(v) == [tt |-> "Literal", lit |-> v]

\* The cargo features tested by match_feature!.
Features == {"serde", "schemars08", "new_unchecked", "arbitrary"}

\* The content of a group: rules that the rule parser of the inner type
\* accepts, or something it rejects.
RuleStreams == {<<Ident("a")>>, <<Ident("b")>>, <<Literal(1)>>}
EmptyStream == <<>>

\* The options a caller writes inside #[nutype(...)], well formed or not.
NutypeOptions ==
    {<<Ident("sanitize"), Group("Parenthesis", st)>> : st \in RuleStreams}
    \cup {<<Ident("validate"), Group("Parenthesis", st)>> : st \in RuleStreams}
    \cup {<<Ident("default"), Punct("="), Literal(v)>> : v \in {1, 2}}
    \cup {<<Ident("sanitize")>>, <<Ident("validate")>>, <<Ident("default")>>,
          <<Ident("default"), Literal(1)>>, <<Ident("new_unchecked")>>,
          <<Ident("new_unchecked"), Group("Parenthesis", EmptyStream)>>, <<Ident("foo")>>,
          <<Literal(1)>>}
    \cup {<<Ident("sanitize"), Group("Bracket", <<Ident("a")>>)>>,
          <<Ident("default"), Punct("="), Punct("-"), Literal(1)>>,
          <<Ident("default"), Punct("="), Literal(1), Punct("*"), Literal(2)>>,
          <<Ident("default"), Punct("="), Ident("x"), Group("Parenthesis", <<Ident("a")>>)>>,
          <<Ident("default"), Punct("="), Ident("x"),
            Group("Bracket", <<Ident("a"), Ident("b")>>)>>,
          <<Ident("default"), Punct("="), Group("Bracket", <<Literal(1), Literal(1)>>)>>,
          <<Ident("default"), Punct("="), Punct("#")>>}

Separators == {"none", "comma", "trailing_comma"}

RECURSIVE Flatten(_, _)
Flatten(options, sep) ==
    IF options = <<>> THEN <<>>
    ELSE Head(options)
         \o (IF sep = "trailing_comma" \/ (sep = "comma" /\ Len(options) > 1)
             THEN <<Punct(",")>> ELSE <<>>)
         \o Flatten(Tail(options), sep)

NutypeInputs ==
    {Flatten(options, sep) : options \in SeqsUpTo(NutypeOptions, MaxOptions), sep \in Separators}

\* A span is the position of a token of the input; the position after the
\* last token is the end of the input, and a token inside a group has the
\* position of the outermost group around it.
ParseError(span, text, names) == Err([span |-> span, msg |-> [text |-> text, names |-> names]])

is_comma(token) == token.tt = "Punct" /\ token.ch = ","
is_eq(token) == token.tt = "Punct" /\ token.ch = "="

\* input.peek(Paren), input.peek(Bracket)
peek_delimiter(tokens, i, delimiter) ==
    /\ i <= Len(tokens)
    /\ tokens[i].tt = "Group"
    /\ tokens[i].delimiter = delimiter

peek_punct(tokens, i, chars) ==
    /\ i <= Len(tokens)
    /\ tokens[i].tt = "Punct"
    /\ tokens[i].ch \in chars

\* parse_sanitize_attrs / parse_validate_attrs / Sanitizer::parse / Validator::parse:
\* the rule parser of the inner type, applied to the content of a group.  A
\* rule is an identifier and rules are separated by commas.
RECURSIVE parse_rules_from(_, _, _, _)
parse_rules_from(stream, k, rules, span) ==
    IF k > Len(stream) THEN Ok(rules)
    ELSE IF stream[k].tt # "Ident" THEN ParseError(span, "invalid rule", "rule")
    ELSE IF k + 1 > Len(stream) THEN Ok(Append(rules, stream[k].name))
    ELSE IF is_comma(stream[k + 1])
    THEN parse_rules_from(stream, k + 2, Append(rules, stream[k].name), span)
    ELSE ParseError(span, "expected ,", "comma")

parse_rules(stream, span) == parse_rules_from(stream, 1, <<>>, span)

NewUncheckedRequiresFeature(span) ==
    ParseError(span, "To generate ::new_unchecked() the feature needs to be enabled", "new_unchecked")

\* The loop of the closure returned by parse_nutype_attributes, with the
\* iterator at position i.
RECURSIVE parse_nutype_attributes_loop(_, _, _, _, _, _)
parse_nutype_attributes_loop(fs, tokens, i, raw, new_unchecked, default_value) ==
    IF i > Len(tokens)
    THEN Ok([guard |-> raw, new_unchecked |-> new_unchecked,
             maybe_default_value |-> default_value])
    ELSE IF tokens[i].tt # "Ident" THEN ParseError(i, "#[nutype] expected ident", "ident")
    ELSE LET ident == tokens[i].name
         IN  CASE ident = "sanitize" ->
                    IF i + 1 > Len(tokens)
                    THEN ParseError(i, "sanitize must be used with parenthesis", "sanitize")
                    ELSE IF tokens[i + 1].tt # "Group"
                    THEN ParseError(i + 1, "#[nutype] expected group", "group")
                    ELSE LET r == parse_rules(tokens[i + 1].stream, i + 1)
                         IN  IF r.tag = "Err" THEN r
                             ELSE parse_nutype_attributes_loop(fs, tokens, i + 2,
                                      [raw EXCEPT !.sanitizers = r.value],
                                      new_unchecked, default_value)
               [] ident = "validate" ->
                    IF i + 1 > Len(tokens)
                    THEN ParseError(i, "validate must be used with parenthesis", "validate")
                    ELSE IF tokens[i + 1].tt # "Group"
                    THEN ParseError(i + 1, "#[nutype] expected group", "group")
                    ELSE LET r == parse_rules(tokens[i + 1].stream, i + 1)
                         IN  IF r.tag = "Err" THEN r
                             ELSE parse_nutype_attributes_loop(fs, tokens, i + 2,
                                      [raw EXCEPT !.validators = r.value],
                                      new_unchecked, default_value)
               [] ident = "default" ->
                    IF i + 1 > Len(tokens)
                    THEN ParseError(i, "Invalid syntax for default. Missing =", "default")
                    ELSE IF ~is_eq(tokens[i + 1])
                    THEN ParseError(i, "Invalid syntax for default. Expected =", "default")
                    ELSE IF i + 2 > Len(tokens)
                    THEN ParseError(i, "Missing default value", "default")
                    ELSE parse_nutype_attributes_loop(fs, tokens, i + 3, raw,
                             new_unchecked, Some(<<tokens[i + 2]>>))
               [] ident = "new_unchecked" ->
                    IF "new_unchecked" \in fs
                    THEN IF i + 1 <= Len(tokens) /\ tokens[i + 1].tt # "Ident"
                         THEN ParseError(i + 1, "new_unchecked does not support any options",
                                         "new_unchecked")
                         ELSE parse_nutype_attributes_loop(fs, tokens, i + 1, raw,
                                  "On", default_value)
                    ELSE NewUncheckedRequiresFeature(i)
               [] OTHER -> ParseError(i, "Unknown #[nutype] option", ident)

parse_nutype_attributes(fs, tokens) ==
    parse_nutype_attributes_loop(fs, tokens, 1,
        [sanitizers |-> <<>>, validators |-> <<>>], "Off", None)

(***************************************************************************)
(* input.parse::<Expr>() of syn, on the tokens above.  A parse returns the *)
(* position after the expression, or the position and text of its error.   *)
(* Tokens that a nested buffer (the content of an index or of an           *)
(* attribute) leaves unparsed are no error of the parse itself: syn        *)
(* records the first of them and reports it when the whole input has been  *)
(* parsed (unexpected = its position, 0 when there is none).               *)
(***************************************************************************)
Parsed(next, unexpected) == [ok |-> TRUE, next |-> next, unexpected |-> unexpected]
Failed(at, text) == [ok |-> FALSE, at |-> at, text |-> text]

\* The first unexpected token recorded stays.
FirstUnexpected(a, b) == IF a # 0 THEN a ELSE b

\* A buffer that is dropped with tokens left records the first of them.
whole_buffer(tokens, r) ==
    IF ~r.ok THEN r
    ELSE Parsed(r.next,
                FirstUnexpected(r.unexpected, IF r.next <= Len(tokens) THEN r.next ELSE 0))

UnaryOps == {"-", "*"}
BinOps == {"-", "*"}

RECURSIVE ambiguous_expr(_, _), unary_expr(_, _, _), unary_operand(_, _)
RECURSIVE expr_attrs(_, _, _), parse_outer(_, _, _, _), parse_meta(_)
RECURSIVE trailer_expr(_, _, _), trailer_helper(_, _, _), after_group(_, _, _, _)
RECURSIVE array_or_repeat(_), array_first(_, _)
RECURSIVE parse_expr(_, _, _), binop_rhs(_, _)
RECURSIVE parse_terminated_expr(_, _, _), parse_terminated_next(_, _, _)

\* content.parse_terminated(Expr::parse, Token![,]): the arguments of a call,
\* and likewise the elements of a tuple (parse_terminated_next:
\* after the expression `value`).
parse_terminated_expr(tokens, i, unexpected) ==
    IF i > Len(tokens) THEN Parsed(i, unexpected)
    ELSE parse_terminated_next(tokens, unexpected, ambiguous_expr(tokens, i))

parse_terminated_next(tokens, unexpected, value) ==
    IF ~value.ok THEN value
    ELSE IF value.next > Len(tokens)
    THEN Parsed(value.next, FirstUnexpected(unexpected, value.unexpected))
    ELSE IF is_comma(tokens[value.next])
    THEN parse_terminated_expr(tokens, value.next + 1,
                               FirstUnexpected(unexpected, value.unexpected))
    ELSE Failed(value.next, "expected ,")

\* Meta::parse on the content of #[...]: a path, a list path(...) or
\* path = expression.
parse_meta(tokens) ==
    IF tokens = <<>> \/ tokens[1].tt # "Ident" THEN Failed(1, "expected identifier")
    ELSE IF Len(tokens) >= 2 /\ tokens[2].tt = "Group" THEN Parsed(3, 0)
    ELSE IF Len(tokens) >= 2 /\ is_eq(tokens[2])
    THEN IF peek_punct(tokens, 3, {"#"}) /\ peek_delimiter(tokens, 4, "Bracket")
         THEN Failed(3, "unexpected attribute inside of attribute")
         ELSE ambiguous_expr(tokens, 3)
    ELSE Parsed(2, 0)

\* expr_attrs: the outer attributes #[...] in front of an expression
\* (parse_outer: after the content of the brackets at position i was parsed
\* as attr).
expr_attrs(tokens, i, unexpected) ==
    IF peek_punct(tokens, i, {"#"})
    THEN IF ~peek_delimiter(tokens, i + 1, "Bracket")
         THEN Failed(i + 1, "expected square brackets")
         ELSE parse_outer(tokens, i + 1, unexpected,
                          whole_buffer(tokens[i + 1].stream, parse_meta(tokens[i + 1].stream)))
    ELSE Parsed(i, unexpected)

parse_outer(tokens, i, unexpected, attr) ==
    IF ~attr.ok THEN Failed(i, attr.text)
    ELSE expr_attrs(tokens, i + 1,
                    FirstUnexpected(unexpected, IF attr.unexpected # 0 THEN i ELSE 0))

\* trailer_helper: the calls (args) and the indexes [index] after an atom
\* (after_group: after the content of the group at position i was parsed as
\* content).
trailer_helper(tokens, i, unexpected) ==
    IF peek_delimiter(tokens, i, "Parenthesis")
    THEN after_group(tokens, i, unexpected, parse_terminated_expr(tokens[i].stream, 1, 0))
    ELSE IF peek_delimiter(tokens, i, "Bracket")
    THEN after_group(tokens, i, unexpected,
                     whole_buffer(tokens[i].stream, ambiguous_expr(tokens[i].stream, 1)))
    ELSE Parsed(i, unexpected)

after_group(tokens, i, unexpected, content) ==
    IF ~content.ok THEN Failed(i, content.text)
    ELSE trailer_helper(tokens, i + 1,
                        FirstUnexpected(unexpected, IF content.unexpected # 0 THEN i ELSE 0))

\* array_or_repeat on the content of [...]: no element, or a first element
\* that ends the content or is followed by a comma and the other elements
\* (array_first: after the element first).
array_or_repeat(tokens) ==
    IF tokens = <<>> THEN Parsed(1, 0) ELSE array_first(tokens, ambiguous_expr(tokens, 1))

array_first(tokens, first) ==
    IF ~first.ok THEN first
    ELSE IF first.next > Len(tokens) THEN Parsed(first.next, first.unexpected)
    ELSE IF is_comma(tokens[first.next])
    THEN parse_terminated_expr(tokens, first.next + 1, first.unexpected)
    ELSE Failed(first.next, "expected , or ;")

\* trailer_expr: atom_expr (a literal, a path, a parenthesised expression or
\* tuple, an array) followed by its trailers.
trailer_expr(tokens, i, unexpected) ==
    IF i > Len(tokens) THEN Failed(i, "expected an expression")
    ELSE IF tokens[i].tt \in {"Literal", "Ident"} THEN trailer_helper(tokens, i + 1, unexpected)
    ELSE IF peek_delimiter(tokens, i, "Parenthesis")
    THEN after_group(tokens, i, unexpected, parse_terminated_expr(tokens[i].stream, 1, 0))
    ELSE IF peek_delimiter(tokens, i, "Bracket")
    THEN after_group(tokens, i, unexpected, array_or_repeat(tokens[i].stream))
    ELSE Failed(i, "expected an expression")

\* unary_expr: attributes, then (unary_operand) a unary operator and its
\* operand, or an atom with its trailers.
unary_expr(tokens, i, unexpected) == unary_operand(tokens, expr_attrs(tokens, i, unexpected))

unary_operand(tokens, attrs) ==
    IF ~attrs.ok THEN attrs
    ELSE IF peek_punct(tokens, attrs.next, UnaryOps)
    THEN unary_expr(tokens, attrs.next + 1, attrs.unexpected)
    ELSE trailer_expr(tokens, attrs.next, attrs.unexpected)

\* parse_expr: the binary operators and the assignments after an operand
\* (binop_rhs: after the operand rhs).
parse_expr(tokens, i, unexpected) ==
    IF peek_punct(tokens, i, BinOps \cup {"="})
    THEN binop_rhs(tokens, unary_expr(tokens, i + 1, unexpected))
    ELSE Parsed(i, unexpected)

binop_rhs(tokens, rhs) ==
    IF ~rhs.ok THEN rhs ELSE parse_expr(tokens, rhs.next, rhs.unexpected)

\* impl Parse for Expr: ambiguous_expr, an operand and what follows it.
ambiguous_expr(tokens, i) == binop_rhs(tokens, unary_expr(tokens, i, 0))

\* ParseableAttributes::default()
ParseableAttributesDefault ==
    [sanitizers |-> <<>>, validators |-> <<>>, new_unchecked |-> "Off", default |-> None]

\* The while loop of ParseableAttributes::parse with the cursor at position i
\* (parseable_attributes_loop), and its tail that parses `,` unless it's the
\* end of the stream (parse_comma).
RECURSIVE parseable_attributes_loop(_, _, _, _, _), parse_comma(_, _, _, _, _)
RECURSIVE parse_default(_, _, _, _, _, _)
parse_comma(fs, tokens, i, attrs, unexpected) ==
    IF i > Len(tokens) THEN parseable_attributes_loop(fs, tokens, i, attrs, unexpected)
    ELSE IF is_comma(tokens[i])
    THEN parseable_attributes_loop(fs, tokens, i + 1, attrs, unexpected)
    ELSE ParseError(i, "expected ,", "comma")

\* attrs.default = Some(default_expr), for the expression default_expr parsed
\* from position i.
parse_default(fs, tokens, i, attrs, unexpected, default_expr) ==
    IF ~default_expr.ok THEN ParseError(default_expr.at, default_expr.text, "default")
    ELSE parse_comma(fs, tokens, default_expr.next,
                     [attrs EXCEPT !.default = Some(SubSeq(tokens, i, default_expr.next - 1))],
                     FirstUnexpected(unexpected, default_expr.unexpected))

\* The same loop keeping the first occurrence of an option.
parse_default_FirstWins(fs, tokens, i, attrs, unexpected, default_expr) ==
    IF ~default_expr.ok THEN ParseError(default_expr.at, default_expr.text, "default")
    ELSE parse_comma(fs, tokens, default_expr.next,
                     [attrs EXCEPT !.default =
                         IF @ = None THEN Some(SubSeq(tokens, i, default_expr.next - 1)) ELSE @],
                     FirstUnexpected(unexpected, default_expr.unexpected))

parseable_attributes_loop_FirstWins(fs, tokens, i, attrs, unexpected) ==
    IF i > Len(tokens) THEN [tag |-> "Ok", value |-> attrs, unexpected |-> unexpected]
    ELSE IF tokens[i].tt # "Ident" THEN ParseError(i, "expected identifier", "ident")
    ELSE LET ident == tokens[i].name
         IN  CASE ident = "sanitize" ->
                    IF peek_delimiter(tokens, i + 1, "Parenthesis")
                    THEN LET items == parse_rules(tokens[i + 1].stream, i + 1)
                         IN  IF items.tag = "Err" THEN items
                             ELSE parse_comma(fs, tokens, i + 2,
                                      [attrs EXCEPT !.sanitizers = IF @ = <<>> THEN items.value ELSE @],
                                      unexpected)
                    ELSE ParseError(i, "sanitize must be used with parenthesis", "sanitize")
               [] ident = "validate" ->
                    IF peek_delimiter(tokens, i + 1, "Parenthesis")
                    THEN LET items == parse_rules(tokens[i + 1].stream, i + 1)
                         IN  IF items.tag = "Err" THEN items
                             ELSE parse_comma(fs, tokens, i + 2,
                                      [attrs EXCEPT !.validators = IF @ = <<>> THEN items.value ELSE @],
                                      unexpected)
                    ELSE ParseError(i, "validate must be used with parenthesis", "validate")
               [] ident = "default" ->
                    IF ~peek_punct(tokens, i + 1, {"="})
                    THEN ParseError(i + 1, "expected =", "default")
                    ELSE parse_default_FirstWins(fs, tokens, i + 2, attrs, unexpected,
                                                 ambiguous_expr(tokens, i + 2))
               [] ident = "new_unchecked" ->
                    IF "new_unchecked" \in fs
                    THEN parse_comma(fs, tokens, i + 1, [attrs EXCEPT !.new_unchecked = "On"],
                                     unexpected)
                    ELSE NewUncheckedRequiresFeature(i)
               [] OTHER -> ParseError(i, "Unknown attribute", ident)

parseable_attributes_loop(fs, tokens, i, attrs, unexpected) ==
    IF i > Len(tokens) THEN [tag |-> "Ok", value |-> attrs, unexpected |-> unexpected]
    ELSE IF tokens[i].tt # "Ident" THEN ParseError(i, "expected identifier", "ident")
    ELSE LET ident == tokens[i].name
         IN  CASE ident = "sanitize" ->
                    IF peek_delimiter(tokens, i + 1, "Parenthesis")
                    THEN LET items == parse_rules(tokens[i + 1].stream, i + 1)
                         IN  IF items.tag = "Err" THEN items
                             ELSE parse_comma(fs, tokens, i + 2,
                                      [attrs EXCEPT !.sanitizers = items.value], unexpected)
                    ELSE ParseError(i, "sanitize must be used with parenthesis", "sanitize")
               [] ident = "validate" ->
                    IF peek_delimiter(tokens, i + 1, "Parenthesis")
                    THEN LET items == parse_rules(tokens[i + 1].stream, i + 1)
                         IN  IF items.tag = "Err" THEN items
                             ELSE parse_comma(fs, tokens, i + 2,
                                      [attrs EXCEPT !.validators = items.value], unexpected)
                    ELSE ParseError(i, "validate must be used with parenthesis", "validate")
               [] ident = "default" ->
                    IF ~peek_punct(tokens, i + 1, {"="})
                    THEN ParseError(i + 1, "expected =", "default")
                    ELSE parse_default(fs, tokens, i + 2, attrs, unexpected,
                                       ambiguous_expr(tokens, i + 2))
               [] ident = "new_unchecked" ->
                    IF "new_unchecked" \in fs
                    THEN parse_comma(fs, tokens, i + 1, [attrs EXCEPT !.new_unchecked = "On"],
                                     unexpected)
                    ELSE NewUncheckedRequiresFeature(i)
               [] OTHER -> ParseError(i, "Unknown attribute", ident)

\* ParseableAttributes::parse run on a token stream by syn: when parse
\* returns Ok and a nested buffer was left with tokens, the outcome is the
\* error "unexpected token".
parseable_attributes_parse(fs, tokens) ==
    LET parsed == parseable_attributes_loop(fs, tokens, 1, ParseableAttributesDefault, 0)
    IN  IF parsed.tag = "Err" THEN parsed
        ELSE IF parsed.unexpected # 0
        THEN ParseError(parsed.unexpected, "unexpected token", "token")
        ELSE Ok(parsed.value)

(***************************************************************************)
(* Parsing of #[derive(...)].                                              *)
(***************************************************************************)
\* The traits written by their own name.
PlainDeriveIdents ==
    {"Debug", "Display", "Clone", "Copy", "PartialEq", "Eq", "PartialOrd", "Ord",
     "FromStr", "AsRef", "Deref", "TryFrom", "From", "Into", "Hash", "Borrow", "Default"}

DeriveIdents == PlainDeriveIdents \cup {"Serialize", "Deserialize", "JsonSchema", "Arbitrary", "Foo"}

FeatureRequired(span, ident, feature) ==
    ParseError(span, "To derive the trait the feature of the crate nutype needs to be enabled",
               feature)

parse_ident_into_derive_trait(fs, ident, span) ==
    CASE ident = "Debug" -> Ok([item |-> "Debug", span |-> span])
      [] ident = "Display" -> Ok([item |-> "Display", span |-> span])
      [] ident = "Clone" -> Ok([item |-> "Clone", span |-> span])
      [] ident = "Copy" -> Ok([item |-> "Copy", span |-> span])
      [] ident = "PartialEq" -> Ok([item |-> "PartialEq", span |-> span])
      [] ident = "Eq" -> Ok([item |-> "Eq", span |-> span])
      [] ident = "PartialOrd" -> Ok([item |-> "PartialOrd", span |-> span])
      [] ident = "Ord" -> Ok([item |-> "Ord", span |-> span])
      [] ident = "FromStr" -> Ok([item |-> "FromStr", span |-> span])
      [] ident = "AsRef" -> Ok([item |-> "AsRef", span |-> span])
      [] ident = "Deref" -> Ok([item |-> "Deref", span |-> span])
      [] ident = "TryFrom" -> Ok([item |-> "TryFrom", span |-> span])
      [] ident = "From" -> Ok([item |-> "From", span |-> span])
      [] ident = "Into" -> Ok([item |-> "Into", span |-> span])
      [] ident = "Hash" -> Ok([item |-> "Hash", span |-> span])
      [] ident = "Borrow" -> Ok([item |-> "Borrow", span |-> span])
      [] ident = "Default" -> Ok([item |-> "Default", span |-> span])
      [] ident = "Serialize" ->
            IF "serde" \in fs THEN Ok([item |-> "SerdeSerialize", span |-> span])
            ELSE FeatureRequired(span, ident, "serde")
      [] ident = "Deserialize" ->
            IF "serde" \in fs THEN Ok([item |-> "SerdeDeserialize", span |-> span])
            ELSE FeatureRequired(span, ident, "serde")
      [] ident = "JsonSchema" ->
            IF "schemars08" \in fs THEN Ok([item |-> "SchemarsJsonSchema", span |-> span])
            ELSE FeatureRequired(span, ident, "schemars08")
      [] OTHER -> ParseError(span, "unsupported trait derive", ident)

parse_token_into_derive_trait(fs, token, span) ==
    IF token.tt = "Ident"
    THEN LET derive_trait == parse_ident_into_derive_trait(fs, token.name, span)
         IN  IF derive_trait.tag = "Err" THEN derive_trait ELSE Ok(Some(derive_trait.value))
    ELSE IF token.tt = "Punct"
    THEN CASE token.ch = "," -> Ok(None)
           [] token.ch = "*" -> ParseError(span, "Asterisk derive is not longer supported", "*")
           [] OTHER -> ParseError(span, "Unexpected", token.ch)
    ELSE ParseError(span, "Unexpected", "token")

\* .map(parse_token_into_derive_trait).collect::<Result<..>>()?.flatten()
RECURSIVE parse_derive_tokens(_, _, _, _, _)
parse_derive_tokens(fs, tokens, a, i, acc) ==
    IF i > Len(tokens) THEN Ok(acc)
    ELSE LET r == parse_token_into_derive_trait(fs, tokens[i], <<a, i>>)
         IN  IF r.tag = "Err" THEN r
             ELSE parse_derive_tokens(fs, tokens, a, i + 1, acc \o r.value)

parse_derive_attr(fs, attr, a) ==
    CASE attr.meta = "Path" -> ParseError("call_site", "Expected #[derive(...)]", "path")
      [] attr.meta = "NameValue" -> ParseError("call_site", "Expected #[derive(...)]", "name_value")
      [] attr.meta = "List" -> parse_derive_tokens(fs, attr.tokens, a, 1, <<>>)

is_derive_attribute(attr) == attr.path = "derive"

RECURSIVE parse_derive_traits_from(_, _, _, _)
parse_derive_traits_from(fs, attrs, a, acc) ==
    IF a > Len(attrs) THEN Ok(acc)
    ELSE IF ~is_derive_attribute(attrs[a]) THEN parse_derive_traits_from(fs, attrs, a + 1, acc)
    ELSE LET r == parse_derive_attr(fs, attrs[a], a)
         IN  IF r.tag = "Err" THEN r
             ELSE parse_derive_traits_from(fs, attrs, a + 1, acc \o r.value)

parse_derive_traits(fs, attrs) == parse_derive_traits_from(fs, attrs, 1, <<>>)

DeriveTokens ==
    {Ident(n) : n \in DeriveIdents} \cup {Punct(","), Punct("*"), Punct("#"), Literal(1)}

DeriveList(tokens) == [path |-> "derive", meta |-> "List", tokens |-> tokens]
DocAttr == [path |-> "doc", meta |-> "NameValue", tokens |-> <<>>]

DeriveAttrInputs ==
    {<<DeriveList(ts)>> : ts \in SeqsUpTo(DeriveTokens, MaxDeriveTokens)}
    \cup {<<DocAttr, DeriveList(<<Ident("Debug"), Punct(",")>>), DeriveList(<<Ident(n)>>)>> :
            n \in DeriveIdents}
    \cup {<<[path |-> "derive", meta |-> "Path", tokens |-> <<>>]>>,
          <<DeriveList(<<Ident("Debug")>>), [path |-> "derive", meta |-> "NameValue", tokens |-> <<>>]>>,
          <<DocAttr>>}

(***************************************************************************)
(* Specification SpecParse: the options of #[nutype(...)] are parsed by    *)
(* both attribute parsers and the #[derive(...)] attributes by             *)
(* parse_derive_traits, under one feature configuration.                   *)
(***************************************************************************)
InitParse ==
    /\ features \in SUBSET Features
    /\ \/ input \in NutypeInputs /\ derive_attrs = <<>>
       \/ input = <<>> /\ derive_attrs \in DeriveAttrInputs
    /\ attributes = NoResult
    /\ parseable_attributes = NoResult
    /\ parsed_derive_traits = NoResult
    /\ FloatIdle
    /\ GuardIdle
    /\ TraitsIdle

ParseNutypeAttributes ==
    /\ attributes = NoResult
    /\ attributes' = parse_nutype_attributes(features, input)
    /\ UNCHANGED <<features, input, parseable_attributes, derive_attrs, parsed_derive_traits>>
    /\ UNCHANGED <<floatVars, guardVars, traitVars>>

ParseableAttributesParse ==
    /\ attributes # NoResult
    /\ parseable_attributes = NoResult
    /\ parseable_attributes' = parseable_attributes_parse(features, input)
    /\ UNCHANGED <<features, input, attributes, derive_attrs, parsed_derive_traits>>
    /\ UNCHANGED <<floatVars, guardVars, traitVars>>

ParseDeriveTraits ==
    /\ parseable_attributes # NoResult
    /\ parsed_derive_traits = NoResult
    /\ parsed_derive_traits' = parse_derive_traits(features, derive_attrs)
    /\ UNCHANGED <<features, input, attributes, parseable_attributes, derive_attrs>>
    /\ UNCHANGED <<floatVars, guardVars, traitVars>>

NextParse == ParseNutypeAttributes \/ ParseableAttributesParse \/ ParseDeriveTraits

SpecParse == InitParse /\ [][NextParse]_vars

\* The flag each feature-gated request needs.
RequiredFlag(request) ==
    CASE request \in {"Serialize", "Deserialize"} -> "serde"
      [] request = "JsonSchema" -> "schemars08"
      [] request = "Arbitrary" -> "arbitrary"
      [] request = "new_unchecked" -> "new_unchecked"

GatedDerives == {"Serialize", "Deserialize", "JsonSchema", "Arbitrary"}

\* A gated request at position span: with the flag off the parse fails, and
\* the error raised at the request names the flag; with the flag on the
\* request itself is not what the parser rejects.
GatedRequestOutcome(parsed, request, span) ==
    IF RequiredFlag(request) \notin features
    THEN /\ parsed.tag = "Err"
         /\ parsed.error.span = span => parsed.error.msg.names = RequiredFlag(request)
    ELSE parsed.tag = "Err" => parsed.error.span # span

\* Position i starts an option of parse_nutype_attributes: it is not where
\* the argument of the option before it is expected.
OptionPosition(tokens, i) ==
    \/ i = 1
    \/ /\ ~(tokens[i - 1].tt = "Punct" /\ ~is_comma(tokens[i - 1]))
       /\ ~(tokens[i - 1].tt = "Ident" /\ tokens[i - 1].name \in {"sanitize", "validate", "default"})

\* Position i starts an option of ParseableAttributes::parse, where options
\* are separated by commas.
SeparatedOptionPosition(tokens, i) == i = 1 \/ is_comma(tokens[i - 1])

\* C9: a feature-gated request (Serialize, Deserialize, JsonSchema, Arbitrary,
\* new_unchecked) made while its flag is off yields an error naming the
\* required flag and no parsed attributes / derive list; with the flag on the
\* same request is accepted.
C9_FeatureGatedRequests ==
    /\ parsed_derive_traits # NoResult =>
          \A a \in 1..Len(derive_attrs) :
              (derive_attrs[a].path = "derive" /\ derive_attrs[a].meta = "List") =>
                  \A i \in 1..Len(derive_attrs[a].tokens) :
                      LET token == derive_attrs[a].tokens[i]
                      IN  (token.tt = "Ident" /\ token.name \in GatedDerives) =>
                              GatedRequestOutcome(parsed_derive_traits, token.name, <<a, i>>)
    /\ \A i \in 1..Len(input) :
          input[i] = Ident("new_unchecked") =>
              /\ (attributes # NoResult /\ OptionPosition(input, i)) =>
                    GatedRequestOutcome(attributes, "new_unchecked", i)
              /\ (parseable_attributes # NoResult /\ SeparatedOptionPosition(input, i)) =>
                    GatedRequestOutcome(parseable_attributes, "new_unchecked", i)

(***************************************************************************)
(* Specification SpecScenario: new() of the wrapper of the concrete        *)
(* scenario, sanitizers = [Clamp(-1000.0, 1000.0)] and validators =        *)
(* [Min(0.0), Max(100.0)], called on inputs around the two ranges.         *)
(***************************************************************************)
ScenarioMeta ==
    [kind |-> "TryFrom",
     sanitizers |-> <<[kind |-> "Clamp", min |-> Fl(-1000), max |-> Fl(1000)]>>,
     validators |-> <<[kind |-> "Min", bound |-> Fl(0)], [kind |-> "Max", bound |-> Fl(100)]>>]

ScenarioInputs == {Fl(50 * n) : n \in -MaxScenarioStep..MaxScenarioStep} \cup {NaN}

InitScenario ==
    /\ meta = ScenarioMeta
    /\ vis = "pub"
    /\ traits = {}
    /\ artifact = None
    /\ implementation = Some(gen_implementation(TypeName, meta))
    /\ pc = "RawInput"
    /\ raw_value \in ScenarioInputs
    /\ sanitized_value = None
    /\ consulted = 0
    /\ result = NoResult
    /\ extracted = None
    /\ GuardIdle
    /\ TraitsIdle
    /\ ParseIdle

\* The steps of the fallible new() and into_inner().
NextScenario ==
    \/ NewSanitize
    \/ NewValidate
    \/ NewWithValidationReturn
    \/ IntoInner

SpecScenario == InitScenario /\ [][NextScenario]_vars

Returned == pc \in {"Error", "Constructed"}

\* C11 as stated: for this wrapper, input 150.0 is sanitized to 100.0 and
\* construction succeeds with value 100.0, and input 200.0 likewise succeeds
\* at the Max boundary.
C11_ScenarioAsStated ==
    (meta = ScenarioMeta /\ raw_value \in {Fl(150), Fl(200)}) =>
        /\ sanitized_value # None => sanitized_value = Some(Fl(100))
        /\ Returned => (pc = "Constructed" /\ result = [tag |-> "Ok", value |-> Wrapper(Fl(100))])

\* C11 amended: for this wrapper, inputs 150.0 and 200.0 lie inside the clamp
\* range, so sanitization leaves them unchanged and construction fails with
\* TooBig at the Max validator; input 100.0, exactly the Max bound, is
\* constructed with value 100.0.
C11_ScenarioAmended ==
    /\ (meta = ScenarioMeta /\ raw_value \in {Fl(150), Fl(200)}) =>
          /\ sanitized_value # None => sanitized_value = Some(raw_value)
          /\ pc # "Panicked"
          /\ Returned =>
                (pc = "Error" /\ consulted = 2
                 /\ result = [tag |-> "Err", err |-> <<gen_error_type_name(TypeName), "TooBig">>])
    /\ (meta = ScenarioMeta /\ raw_value = Fl(100)) =>
          /\ sanitized_value # None => sanitized_value = Some(Fl(100))
          /\ pc \notin {"Error", "Panicked"}
          /\ Returned => result = [tag |-> "Ok", value |-> Wrapper(Fl(100))]

C11_Witness ==
    /\ meta = ScenarioMeta
    /\ raw_value = Fl(150)
    /\ sanitized_value = Some(Fl(150))
    /\ pc = "Error"
    /\ result.err[2] = "TooBig"

(***************************************************************************)
(* Sanitizing an already sanitized value (SpecNew).                        *)
(***************************************************************************)
\* The emitted sanitize() applied once more to the value it returned.
Resanitized == new_sanitize(Impl, Unwrap(sanitized_value))

ClampOnly == \A i \in 1..Len(meta.sanitizers) : meta.sanitizers[i].kind = "Clamp"

InsideClamp(san, x) == FloatLe(san.min, x) /\ FloatLe(x, san.max)

\* C12 as stated: for every sanitizer chain (Clamp and custom `with`
\* transformations, in declaration order) and every input x,
\* sanitize(sanitize(x)) = sanitize(x).
C12_SanitizeIdempotent ==
    sanitized_value # None => Resanitized = Unwrap(sanitized_value)

WellFormed(san) == FloatLe(san.min, san.max)

\* C12 amended: for every chain made of Clamp sanitizers only, each with
\* min <= max, and every input x, sanitize(sanitize(x)) = sanitize(x), and
\* clamping a value already inside [min, max] leaves it unchanged; a chain
\* with a Clamp whose min is greater than its max returns no value at all.
C12_ClampChainIdempotent ==
    (ClampOnly /\ pc # "RawInput") =>
        IF \A i \in 1..Len(meta.sanitizers) : WellFormed(meta.sanitizers[i])
        THEN /\ sanitized_value # None
             /\ Resanitized = Unwrap(sanitized_value)
             /\ (Len(meta.sanitizers) = 1 /\ InsideClamp(meta.sanitizers[1], raw_value)) =>
                   Unwrap(sanitized_value) = raw_value
        ELSE sanitized_value = None /\ pc = "Panicked"

C12_Witness ==
    /\ sanitized_value # None
    /\ ClampOnly
    /\ Len(meta.sanitizers) = 2
    /\ WellFormed(meta.sanitizers[1])
    /\ ~InsideClamp(meta.sanitizers[1], raw_value)
    /\ ~InsideClamp(meta.sanitizers[2], FloatClamp(raw_value, meta.sanitizers[1].min, meta.sanitizers[1].max))
    /\ Unwrap(sanitized_value) # raw_value

(***************************************************************************)
(* Runs of gen_traits on equal inputs (SpecTraits).                        *)
(***************************************************************************)
\* What a run of gen_traits on the inputs of this state can return: one
\* outcome per order in which the requested set can be iterated.
PossibleOutcomes ==
    {gen_traits(TypeName, InnerType, any_maybe_error_type_name(TypeName, guard),
                order, maybe_default_value, guard) :
        order \in IterationOrders(derive_traits.value)}

\* C13: generation is deterministic: every run of gen_traits on the inputs of
\* the run that was made (same type name, inner type, guard, requested set,
\* default expression) returns the same artifact, with the same order of
\* derive entries and of implementation blocks, whatever the iteration order
\* of the requested set.
C13_GenerationDeterministic ==
    generated # NoResult => PossibleOutcomes = {generated}

\* The requested Irregular traits whose implementation cannot be generated
\* for this wrapper.
FailingTraits ==
    {t \in Requested :
        \/ t = "Default" /\ maybe_default_value = None
        \/ t = "ArbitraryArbitrary" /\ has_validation(guard)}

\* C14: no partial generation: when the implementation of a requested
\* Irregular trait cannot be generated, gen_traits returns the error of such a
\* trait and emits nothing, neither the derive list nor the blocks of the
\* other Irregular traits; every misconfiguration surfaces as a returned
\* diagnostic, and an artifact is returned only when there is none.
C14_NoPartialGeneration ==
    (generated # NoResult) =>
        /\ FailingTraits # {} =>
              /\ generated.tag = "Err"
              /\ DOMAIN generated = {"tag", "error"}
              /\ generated.error.msg.trait \in FailingTraits
        /\ FailingTraits = {} =>
              /\ generated.tag = "Ok"
              /\ Cardinality(DeriveEntries) + Cardinality(ImplBlocks) = Cardinality(Requested)

(***************************************************************************)
(* The construction state machine (SpecNewFair).                           *)
(***************************************************************************)
\* The transitions the construction state machine allows.
ConstructionStep ==
    \/ pc' = pc
    \/ pc = "RawInput" /\ pc' = "Sanitized"
    \/ pc = "Sanitized" /\ pc' = "Validated" /\ Fallible
    \/ pc = "Sanitized" /\ pc' = "Error" /\ Fallible
    \/ pc = "Sanitized" /\ pc' = "Constructed" /\ ~Fallible
    \/ pc = "Validated" /\ pc' = "Constructed"

\* The step that runs the validators runs them on the fully sanitized value.
ValidatesSanitized ==
    (pc # pc' /\ pc' \in {"Validated", "Error"}) =>
        /\ sanitized_value = Some(SanitizedRef)
        /\ (pc' = "Error") <=> (FirstViolated(meta.validators, SanitizedRef) # 0)

\* C15: in the construction state machine of a generated new(), validation
\* only ever runs on the fully sanitized value, Error is unreachable for an
\* infallible guard, one of Error or Constructed is eventually reached, and
\* both are terminal: no step leads back to RawInput, Sanitized or Validated,
\* and Constructed is never reached after Error nor Error after Constructed.
C15_ConstructionStateMachine ==
    /\ [](~Fallible => pc # "Error")
    /\ [][ConstructionStep /\ ValidatesSanitized]_vars
    /\ [][(pc = "Error" => pc' = "Error") /\ (pc = "Constructed" => pc' = "Constructed")]_vars
    /\ <>(pc \in {"Error", "Constructed"})

(***************************************************************************)
(* Boundary semantics of the bound validators (SpecNew).                   *)
(***************************************************************************)
\* The validator whose check returned the error.
Rejecting == meta.validators[consulted]

\* Validator i was evaluated on the sanitized value and let it pass.
Passed(i) == i < consulted \/ (i = consulted /\ pc # "Error")

\* C16: the generated validate() rejects with TooBig only when the value is
\* strictly greater than the Max bound and with TooSmall only when it is
\* strictly less than the Min bound; a sanitized value exactly equal to the
\* Max bound or to the Min bound passes that validator.
C16_StrictBounds ==
    (Fallible /\ ValidationDone) =>
        LET x == Unwrap(sanitized_value)
        IN  /\ (pc = "Error" /\ result.err[2] = "TooBig") =>
                  (Rejecting.kind = "Max" /\ ~x.nan /\ x.v > Rejecting.bound.v)
            /\ (pc = "Error" /\ result.err[2] = "TooSmall") =>
                  (Rejecting.kind = "Min" /\ ~x.nan /\ x.v < Rejecting.bound.v)
            /\ \A i \in 1..consulted :
                  (meta.validators[i].kind \in {"Min", "Max"} /\ meta.validators[i].bound = x)
                      => Passed(i)

C16_Witness ==
    /\ Fallible
    /\ pc = "Constructed"
    /\ Len(meta.validators) = 2
    /\ meta.validators[1] = [kind |-> "Max", bound |-> Unwrap(sanitized_value)]
    /\ meta.validators[2] = [kind |-> "Min", bound |-> Unwrap(sanitized_value)]
    /\ Unwrap(sanitized_value) # raw_value

(***************************************************************************)
(* Resolution of the requested traits (SpecTraits).                        *)
(***************************************************************************)
\* The positions of the requests that an arbitrary inner type does not support.
Unsupported ==
    {i \in 1..Len(spanned_derive_traits) :
        spanned_derive_traits[i].item = "SchemarsJsonSchema"}

FirstUnsupported == CHOOSE i \in Unsupported : \A j \in Unsupported : i <= j

\* C17: to_any_derive_trait accepts every DeriveTrait except
\* SchemarsJsonSchema, which is rejected with an error at the span of the
\* trait saying it is not supported for an arbitrary type; the outcome does
\* not depend on whether the guard has validation; the first rejected trait
\* aborts validate_any_derive_traits, which then returns no trait set.
C17_OnlyJsonSchemaRejected ==
    /\ \A t \in DeriveTrait, hv \in BOOLEAN :
          (to_any_derive_trait(t, hv, 1).tag = "Ok") <=> (t # "SchemarsJsonSchema")
    /\ derive_traits # NoResult =>
          /\ \A g \in TraitGuards :
                validate_any_derive_traits(g, spanned_derive_traits) = derive_traits
          /\ IF Unsupported = {}
             THEN /\ derive_traits.tag = "Ok"
                  /\ Range(derive_traits.value) = {AnyTrait(t) : t \in Requested}
             ELSE /\ derive_traits.tag = "Err"
                  /\ DOMAIN derive_traits = {"tag", "error"}
                  /\ derive_traits.error.span = spanned_derive_traits[FirstUnsupported].span
                  /\ derive_traits.error.msg =
                        [text |-> "is not (yet) supported for an arbitrary type",
                         trait |-> "SchemarsJsonSchema"]
                  /\ generated = NoResult

C17_Witness ==
    /\ derive_traits.tag = "Err"
    /\ has_validation(guard)
    /\ Len(spanned_derive_traits) = 3
    /\ spanned_derive_traits[1].item = "ArbitraryArbitrary"
    /\ spanned_derive_traits[2].item = "SchemarsJsonSchema"
    /\ spanned_derive_traits[3].item = "SchemarsJsonSchema"
    /\ derive_traits.error.span = 2

(***************************************************************************)
(* Order of the duplicate checks (SpecGuard).                              *)
(***************************************************************************)
\* C18: validate_any_guard checks the validators for duplicates before the
\* sanitizers: whenever a validator kind is duplicated, also when a sanitizer
\* kind is duplicated too, the error returned is the duplicated-validator
\* error; the duplicated-sanitizer error is returned only when the validators
\* are free of duplicates.
C18_ValidatorsCheckedFirst ==
    (guard_result # NoResult) =>
        LET dupV == RepeatedKinds(raw_guard.validators)
            dupS == RepeatedKinds(raw_guard.sanitizers)
        IN  /\ dupV # {} =>
                  /\ guard_result.tag = "Err"
                  /\ guard_result.error.msg.text = "Duplicated validators"
                  /\ guard_result.error.msg.kind \in dupV
            /\ (guard_result.tag = "Err"
                /\ guard_result.error.msg.text = "Duplicated sanitizer") =>
                  (dupV = {} /\ guard_result.error.msg.kind \in dupS)
            /\ (dupV = {} /\ dupS # {}) =>
                  /\ guard_result.tag = "Err"
                  /\ guard_result.error.msg.text = "Duplicated sanitizer"

C18_Witness ==
    /\ guard_result.tag = "Err"
    /\ guard_result.error.msg = [text |-> "Duplicated validators", kind |-> "Max"]
    /\ RepeatedKinds(raw_guard.sanitizers) = {"Clamp"}
    /\ RepeatedKinds(raw_guard.validators) = {"Max"}

(***************************************************************************)
(* Repeated options (SpecParse).                                           *)
(***************************************************************************)
\* The names of the rules written in a group.
RuleNames(stream) ==
    LET idents == SelectSeq(stream, LAMBDA t : t.tt = "Ident")
    IN  [k \in 1..Len(idents) |-> idents[k].name]

\* parse_nutype_attributes reads option after option, each a fixed number of
\* tokens: the positions where option `name` is written with a group, and
\* those where `default = value` is written.
GroupOptionAt(name) ==
    {i \in 1..(Len(input) - 1) : input[i] = Ident(name) /\ input[i + 1].tt = "Group"}

DefaultAt ==
    {i \in 1..(Len(input) - 2) : input[i] = Ident("default") /\ is_eq(input[i + 1])}

Last(positions) == CHOOSE i \in positions : \A j \in positions : j <= i

LastRules(name) ==
    IF GroupOptionAt(name) = {} THEN <<>>
    ELSE RuleNames(input[Last(GroupOptionAt(name)) + 1].stream)

LastDefault == IF DefaultAt = {} THEN None ELSE Some(<<input[Last(DefaultAt) + 2]>>)

\* ParseableAttributes::parse reads options separated by commas: the
\* positions where an option starts, the option that starts at position i,
\* the positions where `name(...)` is written and those of `default = ...`.
OptionStarts == {i \in 1..Len(input) : i = 1 \/ is_comma(input[i - 1])}

OptionFrom(i) ==
    LET end == IF \E k \in i..Len(input) : is_comma(input[k])
               THEN (CHOOSE k \in i..Len(input) :
                        is_comma(input[k]) /\ \A j \in i..(k - 1) : ~is_comma(input[j])) - 1
               ELSE Len(input)
    IN  SubSeq(input, i, end)

ParenOptionAt(name) ==
    {i \in OptionStarts :
        LET option == OptionFrom(i)
        IN  /\ Len(option) = 2
            /\ option[1] = Ident(name)
            /\ option[2].tt = "Group"
            /\ option[2].delimiter = "Parenthesis"}

DefaultExprAt ==
    {i \in OptionStarts :
        LET option == OptionFrom(i)
        IN  Len(option) >= 3 /\ option[1] = Ident("default") /\ is_eq(option[2])}

LastParenRules(name) ==
    IF ParenOptionAt(name) = {} THEN <<>>
    ELSE RuleNames(OptionFrom(Last(ParenOptionAt(name)))[2].stream)

LastDefaultExpr ==
    IF DefaultExprAt = {} THEN None
    ELSE LET option == OptionFrom(Last(DefaultExprAt))
         IN  Some(SubSeq(option, 3, Len(option)))

\* An error carries no attributes.
ErrorOnly(parsed) == parsed.tag = "Err" /\ DOMAIN parsed = {"tag", "error"}

\* The error is one the parser returned itself, at the option it was
\* reading, and not the report of tokens left unparsed inside a group of an
\* option it had accepted.
StoppedAt(parsed) == parsed.error.msg.text # "unexpected token"

\* The positions from which on the input may be cut without cutting a token
\* the failing option consists of.
AfterError(parsed) == (parsed.error.span + 2)..Len(input)

\* C19: when parse_nutype_attributes or ParseableAttributes::parse accepts a
\* sequence of options, the result holds the rules of the last sanitize(...)
\* group (none if there is no such group), those of the last validate(...)
\* group and the value of the last `default =`; an earlier occurrence is
\* overwritten without an error; a rejected sequence yields the error alone,
\* and the tokens after the option the parser stopped at play no part in it.
C19_LastOccurrenceWins ==
    /\ attributes # NoResult =>
          IF attributes.tag = "Ok"
          THEN /\ attributes.value.guard.sanitizers = LastRules("sanitize")
               /\ attributes.value.guard.validators = LastRules("validate")
               /\ attributes.value.maybe_default_value = LastDefault
          ELSE /\ ErrorOnly(attributes)
               /\ \A k \in AfterError(attributes) :
                     parse_nutype_attributes(features, SubSeq(input, 1, k)) = attributes
    /\ parseable_attributes # NoResult =>
          IF parseable_attributes.tag = "Ok"
          THEN /\ DOMAIN parseable_attributes = {"tag", "value"}
               /\ parseable_attributes.value.sanitizers = LastParenRules("sanitize")
               /\ parseable_attributes.value.validators = LastParenRules("validate")
               /\ parseable_attributes.value.default = LastDefaultExpr
          ELSE /\ ErrorOnly(parseable_attributes)
               /\ StoppedAt(parseable_attributes) =>
                     \A k \in AfterError(parseable_attributes) :
                         parseable_attributes_parse(features, SubSeq(input, 1, k))
                            = parseable_attributes

C19_Witness ==
    /\ parseable_attributes.tag = "Ok"
    /\ Cardinality(DefaultExprAt) = 2
    /\ input[3] = Literal(2)
    /\ parseable_attributes.value.default = Some(<<Punct("-"), Literal(1)>>)
    /\ attributes.tag = "Err"

====
